---- MODULE Spec2Model ----
(***************************************************************************)
(* A model of kaf, the event-log server of src/unnamed/part_003 (v1.5.3):  *)
(* the on-disk record codec, the per-log actor (get_, put_, archive_,      *)
(* stat), the log-set registry and the request tasks that call them.       *)
(*                                                                         *)
(* A file is a sequence of bytes; a byte is a string of length one.        *)
(* Offsets are 0-based as in the source: byte `off` of file f is f[off+1]. *)
(***************************************************************************)
EXTENDS Integers, Sequences, FiniteSets, TLC

(***************************************************************************)
(* Integer widths and text constants                                       *)
(***************************************************************************)
\* The source's numbers are uint32.  TLC's integers end at 2^31 - 1, so the
\* model reads numbers up to MaxNum only; every number it writes is far below.
MaxNum == 2147483647

BIGENOUGH == 32

MaxCount == 5

MaxBytes == 3200

NL == "\n"

BAR == "|"

Digits == <<"0", "1", "2", "3", "4", "5", "6", "7", "8", "9">>

DBHeader == <<"K", "A", "F", "_", "D", "B", "|", "v", "1", "|">>

RecHeaderPfx == <<"\n", "K", "A", "F", "_", "M", "S", "G", "|">>

RecHeaderSfx == <<"\n">>

Min(a, b) == IF a < b THEN a ELSE b

(***************************************************************************)
(* strconv.FormatUint(n, 10) and strconv.ParseUint(s, 10, 32).             *)
(* ParseUint yields -1 for the empty string, a non-digit or a value that   *)
(* does not fit (above MaxNum).                                            *)
(***************************************************************************)
RECURSIVE FormatUint(_)
FormatUint(n) ==
    IF n < 10 THEN <<Digits[n + 1]>>
    ELSE FormatUint(n \div 10) \o <<Digits[(n % 10) + 1]>>

DigitVal(ch) ==
    IF \E d \in 1..10 : Digits[d] = ch
    THEN (CHOOSE d \in 1..10 : Digits[d] = ch) - 1
    ELSE -1

RECURSIVE ParseAcc(_, _, _)
ParseAcc(s, i, acc) ==
    IF i > Len(s) THEN acc
    ELSE IF DigitVal(s[i]) < 0 THEN -1
    ELSE IF acc > (MaxNum - DigitVal(s[i])) \div 10 THEN -1
    ELSE ParseAcc(s, i + 1, acc * 10 + DigitVal(s[i]))

ParseUint(s) == IF Len(s) = 0 THEN -1 ELSE ParseAcc(s, 1, 0)

(***************************************************************************)
(* os.File.ReadAt(buf, off) with len(buf) = n: the bytes actually read.    *)
(***************************************************************************)
ReadAt(f, off, n) ==
    IF off >= Len(f) THEN <<>> ELSE SubSeq(f, off + 1, Min(off + n, Len(f)))

(***************************************************************************)
(* os.File.WriteAt(b, off) on a file of length >= off.                     *)
(***************************************************************************)
WriteAt(f, b, off) ==
    SubSeq(f, 1, off) \o b \o
    (IF off + Len(b) < Len(f) THEN SubSeq(f, off + Len(b) + 1, Len(f)) ELSE <<>>)

(***************************************************************************)
(* readRecInfo: decode the record header found at offset off.              *)
(***************************************************************************)
NoMsg == [err |-> "", offset |-> 0, start |-> 0, num |-> 0, sz |-> 0, data |-> <<>>]

MsgErr(e) == [NoMsg EXCEPT !.err = e]

\* position of the first byte of hdr (0-based, from curr) that is not a newline
RECURSIVE SkipNL(_, _)
SkipNL(hdr, curr) ==
    IF curr < Len(hdr) /\ hdr[curr + 1] = NL THEN SkipNL(hdr, curr + 1) ELSE curr

\* the second loop of readRecInfo; pos is the record of positions
RECURSIVE ScanHdr(_, _)
ScanHdr(hdr, pos) ==
    IF pos.curr >= Len(hdr) THEN pos
    ELSE LET ch == hdr[pos.curr + 1]
             p1 == IF ch # BAR THEN pos
                   ELSE IF pos.firstDivider = -1
                        THEN [pos EXCEPT !.firstDivider = pos.curr]
                   ELSE IF pos.secondDivider = -1
                        THEN [pos EXCEPT !.secondDivider = pos.curr]
                   ELSE [pos EXCEPT !.extra = TRUE]
         IN IF p1.extra THEN p1
            ELSE IF ch = RecHeaderSfx[1] THEN [p1 EXCEPT !.headerEnd = pos.curr]
            ELSE ScanHdr(hdr, [p1 EXCEPT !.curr = pos.curr + 1])

\* the header was scanned: check it and read its two numbers
RecInfoNums(off, pos, num, sz) ==
    IF num < 0 THEN MsgErr("invalid message number")
    ELSE IF sz < 0 THEN MsgErr("invalid message size")
    ELSE [NoMsg EXCEPT !.offset = off, !.start = pos.headerEnd + 1, !.num = num, !.sz = sz]

RecInfoPos(off, hdr, pos) ==
    IF pos.extra THEN MsgErr("extra divider")
    ELSE IF pos.firstDivider = -1 /\ pos.headerStart > 0 THEN MsgErr("panic")
    ELSE IF SubSeq(hdr, pos.headerStart + 1, pos.firstDivider + 1) # RecHeaderPfx
    THEN MsgErr("invalid record header prefix")
    ELSE IF pos.secondDivider = -1 THEN MsgErr("no size")
    ELSE IF pos.headerEnd = -1 THEN MsgErr("not terminated")
    ELSE RecInfoNums(off, pos,
                     ParseUint(SubSeq(hdr, pos.firstDivider + 2, pos.secondDivider)),
                     ParseUint(SubSeq(hdr, pos.secondDivider + 2, pos.headerEnd)))

\* c0 is the position of the first byte that is not a newline
RecInfoSkip(off, hdr, c0) ==
    IF Len(hdr) = 0 THEN MsgErr("read failed")
    ELSE IF c0 = 0 THEN MsgErr("invalid record header start")
    ELSE IF c0 = Len(hdr) THEN [NoMsg EXCEPT !.offset = off, !.start = Len(hdr)]
    ELSE RecInfoPos(off, hdr,
                    ScanHdr(hdr, [curr |-> c0, headerStart |-> c0 - 1, firstDivider |-> -1,
                                  secondDivider |-> -1, headerEnd |-> -1, extra |-> FALSE]))

RecInfoHdr(off, hdr) == RecInfoSkip(off, hdr, SkipNL(hdr, 0))

readRecInfo(off, f) == RecInfoHdr(off, ReadAt(f, off, BIGENOUGH))

(***************************************************************************)
(* The log file record (msgLog) and the file operations of the actor.      *)
(* files maps the name of each existing log file to its bytes; a msgLog's  *)
(* handle f is "open" (on the file of its name) or "nil".  flt names the   *)
(* file-system call that fails during the operation, "none" if none does.  *)
(***************************************************************************)
NUL == "NUL"

NewMsgLog ==
    [f |-> "nil", size |-> 0, lastmsg |-> 0, msgOs |-> <<>>,
     getCount |-> 0, putCount |-> 0, achCount |-> 0, errCount |-> 0]

MsgOff(num, offset) == [num |-> num, offset |-> offset]

fileExists(files, loc) == loc \in DOMAIN files

SetFile(files, loc, bytes) ==
    [n \in DOMAIN files \cup {loc} |-> IF n = loc THEN bytes ELSE files[n]]

RemoveFile(files, loc) == [n \in DOMAIN files \ {loc} |-> files[n]]

\* zero bytes fill the gap when a write starts past the end of the file
RECURSIVE Zeros(_)
Zeros(n) == IF n <= 0 THEN <<>> ELSE <<NUL>> \o Zeros(n - 1)

WriteAtExt(f, b, off) ==
    IF off > Len(f) THEN f \o Zeros(off - Len(f)) \o b ELSE WriteAt(f, b, off)

createLogFile(files, loc, lastmsg) ==
    SetFile(files, loc,
            WriteAt(IF fileExists(files, loc) THEN files[loc] ELSE <<>>,
                    DBHeader \o FormatUint(lastmsg), 0))

clearMsgLog(m) ==
    [m EXCEPT !.f = "nil", !.size = 0, !.lastmsg = 0, !.msgOs = <<>>]

\* the loop of loadDBHeader that finds the end e of the header line
RECURSIVE HdrEnd(_, _, _)
HdrEnd(hdr, e, n) ==
    IF e < n
    THEN IF e + 1 = n \/ hdr[e + 2] = NL THEN e + 1 ELSE HdrEnd(hdr, e + 1, n)
    ELSE e

\* [err, e, m]: e is the offset of the first record
DBHeaderNum(m, e, lastmsg) ==
    IF lastmsg < 0 THEN [err |-> "bad last message number", e |-> 0, m |-> m]
    ELSE [err |-> "", e |-> e, m |-> [m EXCEPT !.lastmsg = lastmsg]]

DBHeaderEnd(m, hdr, l, e) ==
    DBHeaderNum(m, e, ParseUint(IF e > l THEN SubSeq(hdr, l + 1, e) ELSE <<>>))

DBHeaderHdr(m, hdr, l) ==
    IF Len(hdr) < l \/ SubSeq(hdr, 1, l) # DBHeader
    THEN [err |-> "invalid db header", e |-> 0, m |-> m]
    ELSE DBHeaderEnd(m, hdr, l, HdrEnd(hdr, l, Len(hdr)))

loadDBHeader(m, file) == DBHeaderHdr(m, ReadAt(file, 0, BIGENOUGH), Len(DBHeader))

\* the loop of loadMsgOffsets: [err, lastmsg, msgOs]
RECURSIVE ScanMsgs(_, _, _, _, _)
\* mutant: a num equal to the last one is accepted
ScanStepEqual(msg, size, file, lastmsg, msgOs) ==
    IF msg.err # "" THEN [err |-> msg.err, lastmsg |-> lastmsg, msgOs |-> msgOs]
    ELSE IF msg.num > 0 /\ msg.num < lastmsg
    THEN [err |-> "message number did not increase", lastmsg |-> lastmsg, msgOs |-> msgOs]
    ELSE ScanMsgs(msg.offset + msg.start + msg.sz, size, file,
                  IF msg.num > 0 THEN msg.num ELSE lastmsg,
                  IF msg.num > 0 THEN Append(msgOs, MsgOff(msg.num, msg.offset)) ELSE msgOs)

ScanStep(msg, size, file, lastmsg, msgOs) ==
    IF msg.err # "" THEN [err |-> msg.err, lastmsg |-> lastmsg, msgOs |-> msgOs]
    ELSE IF msg.num > 0 /\ msg.num <= lastmsg
    THEN [err |-> "message number did not increase", lastmsg |-> lastmsg, msgOs |-> msgOs]
    ELSE ScanMsgs(msg.offset + msg.start + msg.sz, size, file,
                  IF msg.num > 0 THEN msg.num ELSE lastmsg,
                  IF msg.num > 0 THEN Append(msgOs, MsgOff(msg.num, msg.offset)) ELSE msgOs)

ScanMsgs(offset, size, file, lastmsg, msgOs) ==
    IF offset >= size THEN [err |-> "", lastmsg |-> lastmsg, msgOs |-> msgOs]
    ELSE ScanStep(readRecInfo(offset, file), size, file, lastmsg, msgOs)

\* [err, m]: msgOs is assigned only when the whole file was stepped through
\* mutant: the scan leaves lastmsg at the number of the DB header
MsgOffsetsOfHeader(m, r) ==
    IF r.err # "" THEN [err |-> r.err, m |-> m]
    ELSE [err |-> "", m |-> [m EXCEPT !.msgOs = r.msgOs]]

MsgOffsetsOf(m, r) ==
    IF r.err # "" THEN [err |-> r.err, m |-> [m EXCEPT !.lastmsg = r.lastmsg]]
    ELSE [err |-> "", m |-> [m EXCEPT !.lastmsg = r.lastmsg, !.msgOs = r.msgOs]]

loadMsgOffsets(start, m, file) ==
    MsgOffsetsOf(m, ScanMsgs(start, m.size, file, m.lastmsg, <<>>))

\* [err, m]
LoadAfterHeader(h, file) ==
    IF h.err # "" THEN [err |-> h.err, m |-> h.m] ELSE loadMsgOffsets(h.e, h.m, file)

LoadOpened(o, file) == LoadAfterHeader(loadDBHeader(o, file), file)

loadLogFile(m, files, loc, flt) ==
    IF flt = "open" \/ ~fileExists(files, loc) THEN [err |-> "open", m |-> clearMsgLog(m)]
    ELSE LoadOpened([clearMsgLog(m) EXCEPT !.f = "open", !.size = Len(files[loc])],
                    files[loc])

(***************************************************************************)
(* findMsgNdx: the binary search of the source, step by step.  a is the    *)
(* descriptor list; the result is a 0-based index.                         *)
(***************************************************************************)
RECURSIVE FindLoop(_, _, _, _)
FindLoop(a, num, s, e) ==
    IF s > e THEN Len(a)
    ELSE IF num <= a[s + 1].num THEN s
    ELSE IF a[e + 1].num < num THEN Len(a)
    ELSE LET m == (s + e) \div 2
         IN IF m = s THEN e
            ELSE IF a[m + 1].num < num THEN FindLoop(a, num, m, e)
            ELSE FindLoop(a, num, s, m)

findMsgNdx(a, num) == IF Len(a) = 0 THEN 0 ELSE FindLoop(a, num, 0, Len(a) - 1)

(***************************************************************************)
(* readMsg: check the header at the descriptor's offset, read the payload. *)
(***************************************************************************)
ReadData(mo, msg, data) ==
    IF msg.err # "" THEN msg
    ELSE IF msg.num = 0 THEN MsgErr("no message data found")
    ELSE IF mo.num # msg.num THEN MsgErr("message number on disk incorrect")
    ELSE IF Len(data) < msg.sz THEN MsgErr("EOF")
    ELSE [msg EXCEPT !.data = data]

\* mutant: the payload is read at the record's offset, header included
ReadInfoAtHeader(mo, msg, file) ==
    ReadData(mo, msg, IF msg.err = "" THEN ReadAt(file, msg.offset, msg.sz)
                      ELSE <<>>)

ReadInfo(mo, msg, file) ==
    ReadData(mo, msg, IF msg.err = "" THEN ReadAt(file, msg.offset + msg.start, msg.sz)
                      ELSE <<>>)

readMsg(mo, f, file, flt) ==
    IF f = "nil" \/ flt = "read" THEN MsgErr("read")
    ELSE ReadInfo(mo, readRecInfo(mo.offset, file), file)

(***************************************************************************)
(* get_: [m, resp], resp = [msgs, err].                                    *)
(***************************************************************************)
\* the fault met by the read of the window's record i: "read" fails every
\* read, "read2" lets the first record through and fails the second
ReadFlt(flt, i) ==
    IF flt = "read2" THEN (IF i = 1 THEN "read" ELSE "none") ELSE flt

\* the for loop of get_: [msgs, err]
RECURSIVE GetLoop(_, _, _, _, _, _, _)
GetStepOver(msg, i, tot, msgs, ndx, m, file, flt) ==
    IF msg.err # "" THEN [msgs |-> <<>>, err |-> msg.err]
    ELSE IF tot + msg.sz > MaxBytes THEN [msgs |-> Append(msgs, msg), err |-> ""]
    ELSE GetLoop(i + 1, tot + msg.sz, Append(msgs, msg), ndx, m, file, flt)

\* mutant: a failed read returns the records read before it
GetStepPartial(msg, i, tot, msgs, ndx, m, file, flt) ==
    IF msg.err # "" THEN [msgs |-> msgs, err |-> msg.err]
    ELSE IF tot + msg.sz >= MaxBytes THEN [msgs |-> Append(msgs, msg), err |-> ""]
    ELSE GetLoop(i + 1, tot + msg.sz, Append(msgs, msg), ndx, m, file, flt)

GetStep(msg, i, tot, msgs, ndx, m, file, flt) ==
    IF msg.err # "" THEN [msgs |-> <<>>, err |-> msg.err]
    ELSE IF tot + msg.sz >= MaxBytes THEN [msgs |-> Append(msgs, msg), err |-> ""]
    ELSE GetLoop(i + 1, tot + msg.sz, Append(msgs, msg), ndx, m, file, flt)

GetLoopSix(i, tot, msgs, ndx, m, file, flt) ==
    IF ~(i <= MaxCount /\ ndx + i < Len(m.msgOs)) THEN [msgs |-> msgs, err |-> ""]
    ELSE GetStep(readMsg(m.msgOs[ndx + i + 1], m.f, file, ReadFlt(flt, i)),
                 i, tot, msgs, ndx, m, file, flt)

GetLoop(i, tot, msgs, ndx, m, file, flt) ==
    IF ~(i < MaxCount /\ ndx + i < Len(m.msgOs)) THEN [msgs |-> msgs, err |-> ""]
    ELSE GetStep(readMsg(m.msgOs[ndx + i + 1], m.f, file, ReadFlt(flt, i)),
                 i, tot, msgs, ndx, m, file, flt)

GetRes(g, r) ==
    IF r.err # "" THEN [m |-> [g EXCEPT !.errCount = g.errCount + 1], resp |-> r]
    ELSE [m |-> g, resp |-> r]

GetCounted(num, g, file, flt) ==
    GetRes(g, GetLoop(0, 0, <<>>, findMsgNdx(g.msgOs, num), g, file, flt))

\* mutant: the Get scans the file before it reads
get_Rescan(num, m, file, flt) ==
    IF LoadOpened([m EXCEPT !.size = Len(file)], file).err = ""
    THEN GetCounted(num, [LoadOpened([m EXCEPT !.size = Len(file)], file).m
                             EXCEPT !.getCount = m.getCount + 1], file, flt)
    ELSE GetCounted(num, [m EXCEPT !.getCount = m.getCount + 1], file, flt)

get_(num, m, file, flt) == GetCounted(num, [m EXCEPT !.getCount = m.getCount + 1], file, flt)

(***************************************************************************)
(* put_: [m, files, resp], resp = [num, err].                              *)
(***************************************************************************)
RecHeader(num, sz) == RecHeaderPfx \o FormatUint(num) \o <<BAR>> \o FormatUint(sz) \o RecHeaderSfx

PutErr(m, files, e, counted) ==
    [m |-> IF counted THEN [m EXCEPT !.errCount = m.errCount + 1] ELSE m,
     files |-> files, resp |-> [num |-> 0, err |-> e]]

\* mutant: the record is written but its descriptor is not added to the cache
PutDoneNoCache(data, m, files, num, off, start) ==
    [m |-> [m EXCEPT !.lastmsg = num,
                     !.size = m.size + Len(data) + start],
     files |-> files, resp |-> [num |-> num, err |-> ""]]

\* mutant: the descriptor added to the cache points at the payload
PutDoneAtData(data, m, files, num, off, start) ==
    [m |-> [m EXCEPT !.msgOs = Append(m.msgOs, MsgOff(num, off + start)),
                     !.lastmsg = num,
                     !.size = m.size + Len(data) + start],
     files |-> files, resp |-> [num |-> num, err |-> ""]]

\* mutant: the Put leaves lastmsg as it was
PutDoneNoLast(data, m, files, num, off, start) ==
    [m |-> [m EXCEPT !.msgOs = Append(m.msgOs, MsgOff(num, off)),
                     !.size = m.size + Len(data) + start],
     files |-> files, resp |-> [num |-> num, err |-> ""]]

\* mutant: the Put adds the payload's length to the size, not the header's
PutDoneNoStart(data, m, files, num, off, start) ==
    [m |-> [m EXCEPT !.msgOs = Append(m.msgOs, MsgOff(num, off)),
                     !.lastmsg = num,
                     !.size = m.size + Len(data)],
     files |-> files, resp |-> [num |-> num, err |-> ""]]

\* the part of put_ after the cache refresh: m is the (refreshed) cache
PutDone(data, m, files, num, off, start) ==
    [m |-> [m EXCEPT !.msgOs = Append(m.msgOs, MsgOff(num, off)),
                     !.lastmsg = num,
                     !.size = m.size + Len(data) + start],
     files |-> files, resp |-> [num |-> num, err |-> ""]]

\* mutant: a failed payload write is not counted as an error
PutDataUncounted(data, m, files, loc, num, off, start, flt) ==
    IF flt = "writedata" THEN PutErr(m, files, "write", FALSE)
    ELSE PutDone(data, m, SetFile(files, loc, WriteAtExt(files[loc], data, off + start)),
                 num, off, start)

PutData(data, m, files, loc, num, off, start, flt) ==
    IF flt = "writedata" THEN PutErr(m, files, "write", TRUE)
    ELSE PutDone(data, m, SetFile(files, loc, WriteAtExt(files[loc], data, off + start)),
                 num, off, start)

PutHdr(data, m, files, loc, num, hdr, off, flt) ==
    IF flt = "writehdr" THEN PutErr(m, files, "write", TRUE)
    ELSE PutData(data, m, SetFile(files, loc, WriteAtExt(files[loc], hdr, off)), loc,
                 num, off, Len(hdr), flt)

PutNum(data, m, files, loc, num, off, flt) ==
    PutHdr(data, m, files, loc, num, RecHeader(num, Len(data)), off, flt)

\* mutant: the next number is taken from the count of descriptors
PutWriteCount(data, m, files, loc, off, flt) ==
    PutNum(data, m, files, loc, Len(m.msgOs) + 1, off, flt)

\* mutant: the record is given the number of the last one
PutWriteSame(data, m, files, loc, off, flt) ==
    PutNum(data, m, files, loc, m.lastmsg, off, flt)

PutWrite(data, m, files, loc, off, flt) ==
    PutNum(data, m, files, loc, m.lastmsg + 1, off, flt)

PutLoaded(data, ld, files, loc, off, flt) ==
    IF ld.err # "" THEN PutErr(ld.m, files, ld.err, FALSE)
    ELSE PutWrite(data, ld.m, files, loc, off, flt)

PutReload(data, p, files, loc, off, flt) ==
    PutLoaded(data, loadLogFile(p, files, loc, flt), files, loc, off, flt)

PutStat(data, p, files, loc, infSize, flt) ==
    IF p.size # infSize
    THEN PutReload(data, p,
                   IF fileExists(files, loc) THEN files ELSE createLogFile(files, loc, 0),
                   loc, infSize, flt)
    ELSE PutWrite(data, p, files, loc, infSize, flt)

PutCounted(data, p, files, loc, flt) ==
    IF p.f = "nil" \/ flt = "stat" THEN PutErr(p, files, "stat", TRUE)
    ELSE PutStat(data, p, files, loc, Len(files[loc]), flt)

\* mutant: every actor puts into the file of log a
put_Shared(data, m, files, loc, flt) ==
    PutCounted(data, [m EXCEPT !.putCount = m.putCount + 1], files, "a", flt)

put_(data, m, files, loc, flt) ==
    PutCounted(data, [m EXCEPT !.putCount = m.putCount + 1], files, loc, flt)

(***************************************************************************)
(* archive_: [m, files, archived, resp], resp = [err].  archived maps the  *)
(* name <<log name, timestamp>> of each archived file to its bytes; t is   *)
(* the time (in seconds) the archive reads from the clock.                 *)
(***************************************************************************)
AchRes(m, files, archived, e, counted) ==
    [m |-> IF counted THEN [m EXCEPT !.errCount = m.errCount + 1] ELSE m,
     files |-> files, archived |-> archived, resp |-> [err |-> e]]

\* the descriptor the tail copy starts from; (0, 0) when nothing is retained
FirstMsgAt(msgOs, upto, ndx) ==
    IF ndx < Len(msgOs) /\ msgOs[ndx + 1].num = upto
    THEN (IF ndx + 1 < Len(msgOs) THEN msgOs[ndx + 2] ELSE MsgOff(0, 0))
    ELSE IF ndx < Len(msgOs) THEN msgOs[ndx + 1]
    ELSE MsgOff(0, 0)

FirstMsg(msgOs, upto) == FirstMsgAt(msgOs, upto, findMsgNdx(msgOs, upto))

\* mutant: the new file's header carries the upto asked for, past the end or not
UptoAsked(m, upto) == upto

\* mutant: the new file starts again at 0
UptoZero(m, upto) == 0

\* mutant: an upto past the end makes the new file start one past lastmsg
UptoNext(m, upto) ==
    IF findMsgNdx(m.msgOs, upto) >= Len(m.msgOs) THEN m.lastmsg + 1 ELSE upto

\* the number the new file's header carries
Upto(m, upto) == IF findMsgNdx(m.msgOs, upto) >= Len(m.msgOs) THEN m.lastmsg ELSE upto

\* mutant: nothing of the old file is copied
TailCopyNone(dst, src, offset) == dst

\* the tail of the old file, appended to the new one in chunks of 4096 bytes
TailCopy(dst, src, offset) ==
    IF offset > 0 /\ offset < Len(src) THEN dst \o SubSeq(src, offset + 1, Len(src)) ELSE dst

AchDone(r) == [done |-> TRUE, firstMsg |-> MsgOff(0, 0), aloc |-> <<>>, r |-> r]

\* clearMsgLog, os.Rename and createLogFile (lines 533-543)
AchRename(upto, a, files, archived, loc, aloc, flt) ==
    IF flt = "rename" \/ ~fileExists(files, loc)
    THEN AchDone(AchRes(clearMsgLog(a), files, archived, "rename", TRUE))
    ELSE [done |-> FALSE, firstMsg |-> FirstMsg(a.msgOs, upto), aloc |-> aloc,
          r |-> AchRes(clearMsgLog(a),
                       createLogFile(RemoveFile(files, loc), loc, Upto(a, upto)),
                       SetFile(archived, aloc, files[loc]), "", FALSE)]

\* mutant: a refused Archive is counted as an error
AchCountedErr(upto, a, files, archived, loc, t, flt) ==
    IF Len(a.msgOs) = 0 THEN AchDone(AchRes(a, files, archived, "empty logfile", TRUE))
    ELSE IF upto = 0 THEN AchDone(AchRes(a, files, archived, "upto not given", TRUE))
    ELSE AchRename(upto, a, files, archived, loc, <<loc, t>>, flt)

AchCounted(upto, a, files, archived, loc, t, flt) ==
    IF Len(a.msgOs) = 0 THEN AchDone(AchRes(a, files, archived, "empty logfile", FALSE))
    ELSE IF upto = 0 THEN AchDone(AchRes(a, files, archived, "upto not given", FALSE))
    ELSE AchRename(upto, a, files, archived, loc, <<loc, t>>, flt)

\* archive_ up to and including the creation of the new file (lines 505-543):
\* done tells that archive_ has returned; otherwise archive_Finish follows
archive_Rotate(upto, m, files, archived, loc, t, flt) ==
    AchCounted(upto, [m EXCEPT !.achCount = m.achCount + 1], files, archived, loc, t, flt)

AchLoaded(ld, files, archived) == AchRes(ld.m, files, archived, ld.err, FALSE)

AchCopied(m, files, archived, loc, flt) ==
    AchLoaded(loadLogFile(m, files, loc, flt), files, archived)

\* the rest of archive_ (lines 544-577): copy the tail and load the new file
archive_Finish(firstMsg, aloc, m, files, archived, loc, flt) ==
    IF flt = "opensrc" \/ flt = "opendst" THEN AchRes(m, files, archived, "open", FALSE)
    ELSE IF flt = "copy" /\ firstMsg.offset > 0
         THEN AchRes(m, files, archived, "copy", FALSE)
    ELSE AchCopied(m, SetFile(files, loc,
                              TailCopy(files[loc], archived[aloc], firstMsg.offset)),
                   archived, loc, flt)


(***************************************************************************)
(* The registry: one request of logsGo (lines 243-268).                    *)
(* [logRs, msglogs, files, logR, err]; logRs lists the names of the actors *)
(* in the order they were made, logR is the position in logRs of the actor *)
(* given to the requester, 0 when none is given.                           *)
(***************************************************************************)
\* mutant: the registry finds no actor
findLogRNone(logRs, name) == FALSE

findLogR(logRs, name) == \E i \in 1..Len(logRs) : logRs[i] = name

\* the actor findLogR returns: the first one of that name
LogRIndex(logRs, name) ==
    CHOOSE i \in 1..Len(logRs) :
        logRs[i] = name /\ \A j \in 1..(i - 1) : logRs[j] # name

LogsLoaded(name, ld, logRs, msglogs, files) ==
    IF ld.err # ""
    THEN [logRs |-> logRs, msglogs |-> msglogs, files |-> files, logR |-> 0, err |-> ld.err]
    ELSE [logRs |-> Append(logRs, name), msglogs |-> SetFile(msglogs, name, ld.m),
          files |-> files, logR |-> Len(logRs) + 1, err |-> ""]

LogsCreated(name, logRs, msglogs, files, flt) ==
    IF fileExists(files, name)
    THEN LogsLoaded(name, loadLogFile(NewMsgLog, files, name, flt), logRs, msglogs, files)
    ELSE [logRs |-> logRs, msglogs |-> msglogs, files |-> files, logR |-> 0, err |-> ""]

\* mutant: the registry drops its actors when it finds the one asked for
logsGoReqForget(name, create, logRs, msglogs, files, flt) ==
    IF findLogR(logRs, name)
    THEN [logRs |-> <<>>, msglogs |-> msglogs, files |-> files, logR |-> 0, err |-> ""]
    ELSE LogsCreated(name, logRs, msglogs,
                     IF create /\ ~fileExists(files, name)
                     THEN createLogFile(files, name, 0) ELSE files, flt)

\* mutant: the registry creates the log file whatever the request
logsGoReqCreate(name, create, logRs, msglogs, files, flt) ==
    IF findLogR(logRs, name)
    THEN [logRs |-> logRs, msglogs |-> msglogs, files |-> files,
          logR |-> LogRIndex(logRs, name), err |-> ""]
    ELSE LogsCreated(name, logRs, msglogs,
                     IF ~fileExists(files, name)
                     THEN createLogFile(files, name, 0) ELSE files, flt)

\* the error of createLogFile is dropped: when its OpenFile fails (flt =
\* "create") there is no file and the reply is the empty logReqResp
logsGoReq(name, create, logRs, msglogs, files, flt) ==
    IF findLogR(logRs, name)
    THEN [logRs |-> logRs, msglogs |-> msglogs, files |-> files,
          logR |-> LogRIndex(logRs, name), err |-> ""]
    ELSE LogsCreated(name, logRs, msglogs,
                     IF create /\ ~fileExists(files, name) /\ flt # "create"
                     THEN createLogFile(files, name, 0) ELSE files,
                     flt)

(***************************************************************************)
(* Bounds of the model                                                     *)
(***************************************************************************)
MaxReqs == 4

MaxArg == 3

MaxTime == 0

Clients == {"c1", "c2"}

Names == {"a"}

X == <<"x">>

\* a payload with newlines in it that reads like a record header
Y == <<"\n", "K", "A", "F", "_", "M", "S", "G", "|", "1", "|", "1", "\n">>

Payloads == {X, Y}

(***************************************************************************)
(* State                                                                   *)
(*   files, archived, now : the data directory and the clock               *)
(*   logRs, msglogs       : the registry's list and each actor's msgLog    *)
(*   actor                : each actor's position in its loop              *)
(*   task                 : each request task's position, request, reply   *)
(*   nreq                 : requests submitted (and outside edits made) so *)
(*                          far                                            *)
(*   content, putNums     : history: the records each log holds (num and   *)
(*                          payload as put), the nums its Puts returned    *)
(*   stat                 : the last reply statsGo got from each actor     *)
(*   sg                   : the stats loop (statsGo)                       *)
(***************************************************************************)
VARIABLES files, archived, now, logRs, msglogs, actor, task, nreq, content, putNums,
          arch, poll, stat, sg, fnd

vars == <<files, archived, now, logRs, msglogs, actor, task, nreq, content, putNums,
          arch, poll, stat, sg, fnd>>

\* a call of findMsgNdx in progress: the list, the number looked for, the
\* loop's s and e, and the index returned
NoFind == [pc |-> "none", a |-> <<>>, num |-> 0, s |-> 0, e |-> 0, res |-> 0]

NoReq == [kind |-> "none", name |-> "", num |-> 0, data |-> <<>>, seen |-> FALSE]

NoResp == [err |-> "", num |-> 0, msgs |-> <<>>]

IdleTask == [pc |-> "idle", req |-> NoReq, logR |-> 0, resp |-> NoResp]

ReadyActor == [pc |-> "ready", cur |-> "", firstMsg |-> MsgOff(0, 0), aloc |-> <<>>]

\* a record as a reply carries it: its num, size and payload
Rec(num, data) == [num |-> num, sz |-> Len(data), data |-> data]

Recs(msgs) == [i \in 1..Len(msgs) |-> [num |-> msgs[i].num, sz |-> msgs[i].sz, data |-> msgs[i].data]]

RECURSIVE SelectFrom(_, _)
SelectFrom(recs, from) ==
    IF recs = <<>> THEN <<>>
    ELSE IF Head(recs).num >= from THEN recs
    ELSE SelectFrom(Tail(recs), from)

\* what is remembered of the last successful Archive of a log: its upto, the
\* last num of the log before it, and the num the first successful Put after
\* it returned (fresh until that Put)
NoArch == [upto |-> 0, last |-> 0, next |-> 0, fresh |-> FALSE]

\* a polling consumer: the cursor it started with, its cursor now, and the
\* nums of the records it has received
\* statsGo before its first tick: its position, statCount, the actors it has
\* still to ask, the replies it keeps, the times of the round, and as
\* history the count of the ticks it has taken and all replies of the round
NoStatsGo == [pc |-> "tick", statCount |-> 0, rest |-> <<>>, allstats |-> <<>>,
              start |-> 0, end |-> 0, ticks |-> 0, replies |-> <<>>]

\* no reply received by statsGo from the actor yet
NoStat == [name |-> "", lastmsg |-> 0, getCount |-> 0, putCount |-> 0,
           achCount |-> 0, errCount |-> 0]

NoPoll == [first |-> 1, from |-> 1, got |-> <<>>]

\* the num of the last of the records recs, 0 when there is none
LastNum(recs) == IF recs = <<>> THEN 0 ELSE recs[Len(recs)].num

Holds(name, n) == \E i \in 1..Len(content[name]) : content[name][i].num = n

Init ==
    /\ files = <<>>
    /\ archived = <<>>
    /\ now = 0
    /\ logRs = <<>>
    /\ msglogs = <<>>
    /\ actor = [n \in Names |-> ReadyActor]
    /\ task = [c \in Clients |-> IdleTask]
    /\ nreq = 0
    /\ content = [n \in Names |-> <<>>]
    /\ putNums = [n \in Names |-> <<>>]
    /\ arch = [n \in Names |-> NoArch]
    /\ poll = NoPoll
    /\ stat = [n \in Names |-> NoStat]
    /\ sg = NoStatsGo
    /\ fnd = NoFind

(***************************************************************************)
(* A request task (the handlers get, put, archive of lines 984-1240)       *)
(***************************************************************************)
\* the handler has validated the request and sends its logReq to the registry
Submit(c, req, lim) ==
    /\ task[c].pc \in {"idle", "done"}
    /\ nreq < lim
    /\ nreq' = nreq + 1
    /\ task' = [task EXCEPT ![c] = [pc |-> "lookup", req |-> req, logR |-> 0, resp |-> NoResp]]
    /\ UNCHANGED <<files, archived, now, logRs, msglogs, actor, content, putNums, arch, poll, stat, sg, fnd>>

SubmitGet(c, name, from, lim) ==
    Submit(c, [NoReq EXCEPT !.kind = "get", !.name = name, !.num = from,
                            !.seen = Holds(name, from)], lim)

SubmitPut(c, name, data, lim) ==
    Submit(c, [NoReq EXCEPT !.kind = "put", !.name = name, !.data = data], lim)

SubmitArchive(c, name, upto, lim) ==
    Submit(c, [NoReq EXCEPT !.kind = "archive", !.name = name, !.num = upto], lim)

\* the registry takes the task's logReq, serves it and replies (getLog).
\* The put handler looks at Content-Length and reads the body after that
\* (lines 1159-1186); a put with nothing to store stands for the requests it
\* refuses there.
\* statsGo uses the logR it is given without a test for nil (line 339)
LookupRes(c, req, r) ==
    /\ logRs' = r.logRs
    /\ msglogs' = r.msglogs
    /\ files' = r.files
    /\ task' = [task EXCEPT ![c] =
          IF r.err # ""
          THEN [@ EXCEPT !.pc = "done",
                         !.resp = [NoResp EXCEPT !.err = IF req.kind = "archive"
                                                         THEN "Invalid log" ELSE r.err]]
          ELSE IF req.kind = "put" /\ req.data = <<>>
               THEN [@ EXCEPT !.pc = "done",
                              !.resp = [NoResp EXCEPT !.err = "put: Empty message length"]]
          ELSE IF r.logR # 0 THEN [@ EXCEPT !.pc = "send", !.logR = r.logR]
          ELSE IF req.kind = "archive"
               THEN [@ EXCEPT !.pc = "done", !.resp = [NoResp EXCEPT !.err = "Invalid log"]]
          ELSE IF req.kind = "put" /\ c = "statsGo" THEN [@ EXCEPT !.pc = "panic"]
          ELSE [@ EXCEPT !.pc = "done"]]

Lookup(c, flt) ==
    /\ task[c].pc = "lookup"
    /\ LookupRes(c, task[c].req,
                 logsGoReq(task[c].req.name, task[c].req.kind = "put",
                           logRs, msglogs, files, flt))
    /\ UNCHANGED <<archived, now, actor, nreq, content, putNums, arch, poll, stat, sg, fnd>>

(***************************************************************************)
(* A log's actor (the goroutine of loadLogR, lines 470-489)                *)
(***************************************************************************)
\* mutant: the actor takes a request while it is serving another
ActorReadyAlways(name) == TRUE

\* mutant: the actor takes a request before it has replied to the last
ActorReadyBusy(name) == actor[name].pc \in {"ready", "busy"}

ActorReady(name) == actor[name].pc = "ready"

\* the actor takes the request a task is sending on one of its channels
Recv(c) ==
    LET name == task[c].req.name
    IN /\ task[c].pc = "send"
       /\ ActorReady(name)
       /\ actor' = [actor EXCEPT ![name] = [ReadyActor EXCEPT !.pc = "busy", !.cur = c]]
       /\ task' = [task EXCEPT ![c].pc = "await"]
       /\ UNCHANGED <<files, archived, now, logRs, msglogs, nreq, content, putNums, arch, poll, stat, sg, fnd>>

Busy(name, kind) ==
    /\ actor[name].pc = "busy"
    /\ task[actor[name].cur].req.kind = kind

Reply(c, resp) == [task EXCEPT ![c] = [@ EXCEPT !.pc = "done", !.resp = resp]]

ServeGetRes(name, c, r) ==
    /\ msglogs' = [msglogs EXCEPT ![name] = r.m]
    /\ task' = Reply(c, [NoResp EXCEPT !.err = r.resp.err, !.msgs = Recs(r.resp.msgs)])

ServeGet(name, flt) ==
    /\ Busy(name, "get")
    /\ ServeGetRes(name, actor[name].cur,
                   get_(task[actor[name].cur].req.num, msglogs[name], files[name], flt))
    /\ actor' = [actor EXCEPT ![name] = ReadyActor]
    /\ UNCHANGED <<files, archived, now, logRs, nreq, content, putNums, arch, poll, stat, sg, fnd>>

ServePutRes(name, c, data, r) ==
    /\ msglogs' = [msglogs EXCEPT ![name] = r.m]
    /\ files' = r.files
    /\ task' = Reply(c, [NoResp EXCEPT !.err = r.resp.err, !.num = r.resp.num])
    /\ content' = IF r.resp.err = ""
                  THEN [content EXCEPT ![name] = Append(@, Rec(r.resp.num, data))]
                  ELSE content
    /\ putNums' = IF r.resp.err = "" THEN [putNums EXCEPT ![name] = Append(@, r.resp.num)]
                  ELSE putNums
    /\ arch' = IF r.resp.err = "" /\ arch[name].fresh
               THEN [arch EXCEPT ![name] = [@ EXCEPT !.next = r.resp.num, !.fresh = FALSE]]
               ELSE arch

ServePut(name, flt) ==
    /\ Busy(name, "put")
    /\ ServePutRes(name, actor[name].cur, task[actor[name].cur].req.data,
                   put_(task[actor[name].cur].req.data, msglogs[name], files, name, flt))
    /\ actor' = [actor EXCEPT ![name] = ReadyActor]
    /\ UNCHANGED <<archived, now, logRs, nreq, poll, stat, sg, fnd>>

\* an Archive(upto) has been served: a Get for a record up to upto that is
\* still on its way no longer counts on finding it
Unsee(tk, name, upto) ==
    [c \in DOMAIN tk |->
        IF tk[c].req.kind = "get" /\ tk[c].req.name = name /\ tk[c].req.num <= upto
           /\ tk[c].pc \in {"lookup", "send"}
        THEN [tk[c] EXCEPT !.req.seen = FALSE] ELSE tk[c]]

ArchiveRotateRes(name, c, p) ==
    /\ msglogs' = [msglogs EXCEPT ![name] = p.r.m]
    /\ files' = p.r.files
    /\ archived' = p.r.archived
    /\ IF p.done
       THEN /\ task' = Unsee(Reply(c, [NoResp EXCEPT !.err = p.r.resp.err]),
                             name, task[c].req.num)
            /\ actor' = [actor EXCEPT ![name] = ReadyActor]
       ELSE /\ task' = task
            /\ actor' = [actor EXCEPT ![name] =
                            [@ EXCEPT !.pc = "rotating", !.firstMsg = p.firstMsg,
                                      !.aloc = p.aloc]]

ArchiveRotate(name, t, flt) ==
    /\ Busy(name, "archive")
    /\ t >= now
    /\ now' = t
    /\ ArchiveRotateRes(name, actor[name].cur,
                        archive_Rotate(task[actor[name].cur].req.num, msglogs[name],
                                       files, archived, name, t, flt))
    /\ UNCHANGED <<logRs, nreq, content, putNums, arch, poll, stat, sg, fnd>>

\* the records of the log after a successful Archive(upto): those above upto
ArchiveFinishRes(name, c, upto, r) ==
    /\ msglogs' = [msglogs EXCEPT ![name] = r.m]
    /\ files' = r.files
    /\ archived' = r.archived
    /\ task' = Unsee(Reply(c, [NoResp EXCEPT !.err = r.resp.err]), name, upto)
    /\ content' = IF r.resp.err = ""
                  THEN [content EXCEPT ![name] = SelectFrom(@, upto + 1)]
                  ELSE content
    /\ arch' = IF r.resp.err = ""
               THEN [arch EXCEPT ![name] =
                        [upto |-> upto, last |-> LastNum(content[name]),
                         next |-> 0, fresh |-> TRUE]]
               ELSE arch

ArchiveFinish(name, flt) ==
    /\ actor[name].pc = "rotating"
    /\ ArchiveFinishRes(name, actor[name].cur, task[actor[name].cur].req.num,
                        archive_Finish(actor[name].firstMsg, actor[name].aloc,
                                       msglogs[name], files, archived, name, flt))
    /\ actor' = [actor EXCEPT ![name] = ReadyActor]
    /\ UNCHANGED <<now, logRs, nreq, putNums, poll, stat, sg, fnd>>

TaskStep(c) ==
    \/ \E n \in Names, from \in 1..MaxArg : SubmitGet(c, n, from, MaxReqs)
    \/ \E n \in Names, data \in Payloads : SubmitPut(c, n, data, MaxReqs)
    \/ \E n \in Names, upto \in 1..MaxArg : SubmitArchive(c, n, upto, MaxReqs)
    \/ Lookup(c, "none")
    \/ Recv(c)

ActorStep(n) ==
    \/ ServeGet(n, "none")
    \/ ServePut(n, "none")
    \/ \E t \in 0..MaxTime : ArchiveRotate(n, t, "none")
    \/ ArchiveFinish(n, "none")

Next ==
    \/ \E c \in Clients : TaskStep(c)
    \/ \E n \in Names : ActorStep(n)

Spec == Init /\ [][Next]_vars

(***************************************************************************)
(* Edits of a log file from outside the server ("open it in your editor    *)
(* and update/fix it", README; "human edits between writes", put_): the    *)
(* file is cut back to the start of one of its records, or a well-formed   *)
(* record with the next number is added at its end.  The file is changed   *)
(* in place, so the actor's handle stays on it.                            *)
(***************************************************************************)
MaxRecs == 3

\* the descriptors a scan of the file finds, <<>> if it does not scan
ScanOf(file) == LoadOpened([NewMsgLog EXCEPT !.f = "open", !.size = Len(file)], file)

RECURSIVE DropFrom(_, _)
DropFrom(recs, num) ==
    IF recs = <<>> \/ Head(recs).num >= num THEN <<>>
    ELSE <<Head(recs)>> \o DropFrom(Tail(recs), num)

EditTruncateAt(name, i, sc) ==
    /\ sc.err = ""
    /\ i \in 1..Len(sc.m.msgOs)
    /\ files' = [files EXCEPT ![name] = SubSeq(@, 1, sc.m.msgOs[i].offset)]
    /\ content' = [content EXCEPT ![name] = DropFrom(@, sc.m.msgOs[i].num)]

EditTruncate(name, i) ==
    /\ fileExists(files, name)
    /\ actor[name].pc = "ready"
    /\ nreq < MaxReqs
    /\ EditTruncateAt(name, i, ScanOf(files[name]))
    /\ nreq' = nreq + 1
    /\ UNCHANGED <<archived, now, logRs, msglogs, actor, task, putNums, arch, poll, stat, sg, fnd>>

EditAppendAt(name, data, sc) ==
    /\ sc.err = ""
    /\ Len(sc.m.msgOs) < MaxRecs
    /\ files' = [files EXCEPT ![name] = @ \o RecHeader(sc.m.lastmsg + 1, Len(data)) \o data]
    /\ content' = [content EXCEPT ![name] = Append(@, Rec(sc.m.lastmsg + 1, data))]

EditAppend(name, data) ==
    /\ fileExists(files, name)
    /\ actor[name].pc = "ready"
    /\ nreq < MaxReqs
    /\ EditAppendAt(name, data, ScanOf(files[name]))
    /\ nreq' = nreq + 1
    /\ UNCHANGED <<archived, now, logRs, msglogs, actor, task, putNums, arch, poll, stat, sg, fnd>>

EditClients == {"c1"}

NextEdit ==
    \/ \E c \in EditClients : TaskStep(c)
    \/ \E n \in Names : ActorStep(n)
    \/ \E n \in Names, i \in 1..MaxRecs : EditTruncate(n, i)
    \/ \E n \in Names, data \in Payloads : EditAppend(n, data)

SpecEdit == Init /\ [][NextEdit]_vars

(***************************************************************************)
(* Reading windows: the server starts on a data directory that holds one   *)
(* log of up to WinRecs records numbered from 1, at most WinBig of them    *)
(* large, and one task sends Gets.                                         *)
(***************************************************************************)
WinRecs == 6

WinBig == 2

WinReqs == 1

WinSizes == {1, 1600, 3200}

Payload(sz) == [i \in 1..sz |-> "x"]

RECURSIVE Tuples(_)
Tuples(n) ==
    IF n = 0 THEN {<<>>}
    ELSE Tuples(n - 1) \cup
         {Append(t, z) : t \in {u \in Tuples(n - 1) : Len(u) = n - 1}, z \in WinSizes}

WinSeqs == {t \in Tuples(WinRecs) : Cardinality({i \in 1..Len(t) : t[i] > 1}) <= WinBig}

\* the file a server leaves that was given Puts of these sizes from an empty log
RECURSIVE WinFile(_, _)
WinFile(sizes, n) ==
    IF n = 0 THEN DBHeader \o FormatUint(0)
    ELSE WinFile(sizes, n - 1) \o RecHeader(n, sizes[n]) \o Payload(sizes[n])

InitWin ==
    \E sizes \in WinSeqs :
        /\ files = [n \in Names |-> WinFile(sizes, Len(sizes))]
        /\ archived = <<>>
        /\ now = 0
        /\ logRs = <<"a">>
        /\ msglogs = [n \in Names |->
                         loadLogFile(NewMsgLog, files, n, "none").m]
        /\ actor = [n \in Names |-> ReadyActor]
        /\ task = [c \in Clients |-> IdleTask]
        /\ nreq = 0
        /\ content = [n \in Names |-> [i \in 1..Len(sizes) |-> Rec(i, Payload(sizes[i]))]]
        /\ putNums = [n \in Names |-> [i \in 1..Len(sizes) |-> i]]
        /\ arch = [n \in Names |-> NoArch]
        /\ poll = NoPoll
        /\ stat = [n \in Names |-> NoStat]
        /\ sg = NoStatsGo
        /\ fnd = NoFind

NextWin ==
    \/ \E c \in EditClients, n \in Names, from \in 1..(WinRecs + 1) :
           SubmitGet(c, n, from, WinReqs)
    \/ \E c \in EditClients : Lookup(c, "none")
    \/ \E c \in EditClients : Recv(c)
    \/ \E n \in Names : ServeGet(n, "none")

SpecWin == InitWin /\ [][NextWin]_vars

(***************************************************************************)
(* A polling consumer (the sample client of the README): it keeps a cursor,*)
(* asks for the records from it, and moves it past the last record of a    *)
(* reply that carries X-Kaf-LastMsgSent.  Another task puts records and    *)
(* archives below the consumer's cursor.  The stats loop asks each actor   *)
(* for its counters, which the actor resets; the consumer waits with its   *)
(* next Get while the log counts MaxGets Gets.                             *)
(***************************************************************************)
MaxGets == 1
PollReqs == 3
MaxFirst == 2

PollPayloads == {X}

Consumer == "c1"

Producer == "c2"

\* the stat case of the actor's select
\* mutant: the reply is taken after the counters are reset
StatReplyReset(name, m) ==
    [name |-> name, lastmsg |-> m.lastmsg,
     getCount |-> 0, putCount |-> 0, achCount |-> 0, errCount |-> 0]

\* stats(*msglog): the copy of the cache sent as the reply; its name,
\* lastmsg and four counters
StatReply(name, m) ==
    [name |-> name, lastmsg |-> m.lastmsg,
     getCount |-> m.getCount, putCount |-> m.putCount,
     achCount |-> m.achCount, errCount |-> m.errCount]

\* mutant: the count of archives survives the Stat
StatCaseKeepsAch(name) ==
    /\ findLogR(logRs, name)
    /\ ActorReady(name)
    /\ stat' = [stat EXCEPT ![name] = StatReply(name, msglogs[name])]
    /\ msglogs' = [msglogs EXCEPT ![name] =
                      [@ EXCEPT !.getCount = 0, !.putCount = 0, !.errCount = 0]]
    /\ UNCHANGED <<files, archived, now, logRs, actor, task, nreq, content, putNums,
                   arch, poll, fnd>>

\* the stat case of the actor's select: copy, reset, reply
StatCase(name) ==
    /\ findLogR(logRs, name)
    /\ ActorReady(name)
    /\ stat' = [stat EXCEPT ![name] = StatReply(name, msglogs[name])]
    /\ msglogs' = [msglogs EXCEPT ![name] =
                      [@ EXCEPT !.getCount = 0, !.putCount = 0,
                                !.achCount = 0, !.errCount = 0]]
    /\ UNCHANGED <<files, archived, now, logRs, actor, task, nreq, content, putNums,
                   arch, poll, fnd>>

\* a Stat served with the stats loop left out of the picture
ServeStat(name) == StatCase(name) /\ UNCHANGED sg

\* mutant: the header names the first record of the reply
LastMsgSentFirst(msgs) == msgs[1].num

\* the X-Kaf-LastMsgSent header of a reply that carries records
LastMsgSent(msgs) == msgs[Len(msgs)].num

PollGet(c, name) ==
    /\ task[c].pc = "idle"
    /\ name \in DOMAIN msglogs => msglogs[name].getCount < MaxGets
    /\ task' = [task EXCEPT ![c] =
                   [pc |-> "lookup",
                    req |-> [NoReq EXCEPT !.kind = "get", !.name = name, !.num = poll.from,
                                          !.seen = Holds(name, poll.from)],
                    logR |-> 0,
                    resp |-> NoResp]]
    /\ UNCHANGED <<files, archived, now, logRs, msglogs, actor, nreq, content, putNums,
                   arch, poll, stat, sg, fnd>>

PollTake(c) ==
    /\ task[c].pc = "done"
    /\ poll' = IF task[c].resp.msgs # <<>>
               THEN [poll EXCEPT !.from = LastMsgSent(task[c].resp.msgs) + 1,
                                 !.got = @ \o [i \in 1..Len(task[c].resp.msgs) |->
                                                  task[c].resp.msgs[i].num]]
               ELSE poll
    /\ task' = [task EXCEPT ![c] = IdleTask]
    /\ UNCHANGED <<files, archived, now, logRs, msglogs, actor, nreq, content, putNums,
                   arch, stat, sg, fnd>>

InitPoll ==
    /\ files = <<>>
    /\ archived = <<>>
    /\ now = 0
    /\ logRs = <<>>
    /\ msglogs = <<>>
    /\ actor = [n \in Names |-> ReadyActor]
    /\ task = [c \in Clients |-> IdleTask]
    /\ nreq = 0
    /\ content = [n \in Names |-> <<>>]
    /\ putNums = [n \in Names |-> <<>>]
    /\ arch = [n \in Names |-> NoArch]
    /\ \E f \in 1..MaxFirst : poll = [first |-> f, from |-> f, got |-> <<>>]
    /\ stat = [n \in Names |-> NoStat]
    /\ sg = NoStatsGo
    /\ fnd = NoFind

ConsumerStep(c) ==
    \/ \E n \in Names : PollGet(c, n)
    \/ PollTake(c)
    \/ Lookup(c, "none")
    \/ Recv(c)

ProducerStep(c) ==
    \/ \E n \in Names, data \in PollPayloads : SubmitPut(c, n, data, PollReqs)
    \/ \E n \in Names, upto \in 1..MaxArg :
           upto < poll.from /\ SubmitArchive(c, n, upto, PollReqs)
    \/ Lookup(c, "none")
    \/ Recv(c)

\* the actor's steps with the clock standing still: the time only names the
\* archived file
ActorStepNow(n) ==
    \/ ServeGet(n, "none")
    \/ ServePut(n, "none")
    \/ ArchiveRotate(n, now, "none")
    \/ ArchiveFinish(n, "none")

NextPoll ==
    \/ ConsumerStep(Consumer)
    \/ ProducerStep(Producer)
    \/ \E n \in Names : ActorStepNow(n)
    \/ \E n \in Names : ServeStat(n)

SpecPoll == InitPoll /\ [][NextPoll]_vars

\* the actor of log n ends the request it is serving.  A step of ActorStep is
\* possible exactly when the actor is not ready, and one or two of them make
\* it ready again.
ActorTurn(n) ==
    /\ actor[n].pc # "ready"
    /\ actor' = [actor EXCEPT ![n] = ReadyActor]

\* the consumer's loop, each actor's loop and the ticker of the stats loop
\* keep running
FairSpecPoll ==
    /\ SpecPoll
    /\ WF_vars(ConsumerStep(Consumer))
    /\ \A n \in Names : WF_actor(ActorTurn(n))
    /\ \A n \in Names : WF_vars(ServeStat(n))

(***************************************************************************)
(* Steps of the actor, as the properties below name them                   *)
(***************************************************************************)
\* the actor of log n replies to a request of the given kind in this step
Served(n, kind) ==
    /\ actor[n].pc \in {"busy", "rotating"}
    /\ task[actor[n].cur].req.kind = kind
    /\ actor'[n].pc = "ready"

\* the lastmsg of the cache put_ appends to: that of the cache, re-read from the
\* file when the file's size is not the cached one
PutBase(n) ==
    IF msglogs[n].size # Len(files[n])
    THEN loadLogFile(msglogs[n], files, n, "none").m.lastmsg
    ELSE msglogs[n].lastmsg

Refreshes(n) == msglogs[n].size # Len(files[n])

(***************************************************************************)
(* C1: a Put that returns without error returns lastmsg + 1, lastmsg taken *)
(* right before the append (after the cache refresh this Put may have      *)
(* done), and the log's lastmsg right after the Put is the returned num.   *)
(***************************************************************************)
C1_PutNum ==
    [][\A n \in Names :
          (Served(n, "put") /\ task'[actor[n].cur].resp.err = "")
          => /\ task'[actor[n].cur].resp.num = PutBase(n) + 1
             /\ task'[actor[n].cur].resp.num = msglogs'[n].lastmsg]_vars

\* a Put has answered 2 right after a refresh that found record 1 cut off a
\* log of two or more records: an earlier Put had answered 2 or more
C1_Witness ==
    \E n \in Names, c \in Clients :
        /\ task[c].pc = "done" /\ task[c].req.kind = "put" /\ task[c].req.name = n
        /\ task[c].resp.err = "" /\ task[c].resp.num = 2
        /\ Len(putNums[n]) >= 3
        /\ putNums[n][Len(putNums[n])] = 2

RECURSIVE SumSz(_, _)
SumSz(recs, k) == IF k = 0 THEN 0 ELSE SumSz(recs, k - 1) + recs[k].sz

\* the records of log n a Get(from) may return, as the log holds them
Avail(n, from) == SelectFrom(content[n], from)

\* the reply of the Get the actor of log n serves in this step
GetReply(n) == task'[actor[n].cur].resp

GetFrom(n) == task[actor[n].cur].req.num

\* len is the greatest length of a prefix of avail that Ok allows
IsMaxLen(avail, len, Ok(_)) ==
    /\ len <= Len(avail)
    /\ (len > 0 => Ok(len))
    /\ \A k \in 1..Len(avail) : Ok(k) => k <= len

C5_RoundTrip ==
    [][\A n \in Names :
          (Served(n, "get") /\ Holds(n, GetFrom(n)))
          => /\ GetReply(n).err = ""
             /\ Len(GetReply(n).msgs) >= 1
             /\ \E i \in 1..Len(content[n]) :
                    /\ content[n][i].num = GetFrom(n)
                    /\ GetReply(n).msgs[1].num = GetFrom(n)
                    /\ GetReply(n).msgs[1].sz = Len(content[n][i].data)
                    /\ GetReply(n).msgs[1].data = content[n][i].data]_vars

\* a Get(2) has returned record 2, put with the header-like payload after
\* another record with that payload
C5_Witness ==
    \E c \in Clients :
        /\ task[c].pc = "done" /\ task[c].req.kind = "get" /\ task[c].req.num = 2
        /\ Len(task[c].resp.msgs) >= 1
        /\ task[c].resp.msgs[1] = Rec(2, Y)
        /\ Len(content[task[c].req.name]) = 2
        /\ content[task[c].req.name][1] = Rec(1, Y)

(***************************************************************************)
(* C6: a Get(from = n) submitted after a Put on the same log has returned  *)
(* n, with no Archive of upto >= n processed in between, returns a         *)
(* non-empty window whose first record is record n, in every interleaving  *)
(* of the request tasks (req.seen records that the Put had returned when   *)
(* the Get was submitted and that no such Archive was processed since).    *)
(***************************************************************************)
C6_GetSeesPut ==
    [][\A n \in Names :
          (Served(n, "get") /\ task[actor[n].cur].req.seen)
          => /\ GetReply(n).err = ""
             /\ GetReply(n).msgs # <<>>
             /\ GetReply(n).msgs[1].num = GetFrom(n)]_vars

\* a Get(2) submitted after record 2 was put has returned it after an
\* Archive(1) by the other task
C6_Witness ==
    \E c, c2 \in Clients :
        /\ c # c2
        /\ task[c].pc = "done" /\ task[c].req.kind = "get" /\ task[c].req.seen
        /\ task[c].req.num = 2
        /\ task[c].resp.msgs # <<>> /\ task[c].resp.msgs[1].num = 2
        /\ task[c2].pc = "done" /\ task[c2].req.kind = "archive"
        /\ task[c2].req.name = task[c].req.name /\ task[c2].req.num = 1
        /\ task[c2].resp.err = ""
        /\ content[task[c].req.name][1].num = 2

(***************************************************************************)
(* What a successful Archive leaves                                        *)
(***************************************************************************)
\* the actor of log n replies in this step to an Archive that succeeded
Archived(n) ==
    /\ actor[n].pc = "rotating" /\ actor'[n].pc = "ready"
    /\ task'[actor[n].cur].resp.err = ""

ArchUpto(n) == task[actor[n].cur].req.num

\* the records of log n before the Archive that have num > upto
Kept(n) == SelectFrom(content[n], ArchUpto(n) + 1)

\* the descriptors of log n after the step are the records recs, and the
\* file gives their payloads
DescriptorsAre(n, recs) ==
    /\ Len(msglogs'[n].msgOs) = Len(recs)
    /\ \A i \in 1..Len(recs) :
           /\ msglogs'[n].msgOs[i].num = recs[i].num
           /\ Recs(<<readMsg(msglogs'[n].msgOs[i], msglogs'[n].f, files'[n], "none")>>)[1]
                = recs[i]

\* the file starts with a DB header that carries the number num
HeaderCarries(file, num) ==
    LET h == DBHeader \o FormatUint(num)
    IN /\ Len(file) >= Len(h) /\ SubSeq(file, 1, Len(h)) = h
       /\ (Len(file) > Len(h) => file[Len(h) + 1] = NL)

WindowLen(avail) ==
    CHOOSE len \in 0..Len(avail) :
        /\ len > 0 => len <= MaxCount /\ (len = 1 \/ SumSz(avail, len - 1) < MaxBytes)
        /\ \A k \in 1..Len(avail) :
               (k <= MaxCount /\ (k = 1 \/ SumSz(avail, k - 1) < MaxBytes)) => k <= len

Window(avail) == SubSeq(avail, 1, WindowLen(avail))

CacheIs(m, file, recs) ==
    /\ m.f # "nil"
    /\ m.size = Len(file)
    /\ Len(m.msgOs) = Len(recs)
    /\ \A i \in 1..Len(recs) :
           /\ m.msgOs[i].num = recs[i].num
           /\ Recs(<<readMsg(m.msgOs[i], m.f, file, "none")>>)[1] = recs[i]
    /\ loadDBHeader(m, file).err = ""

Polled(x) == x >= poll.first /\ x < poll.from

Wanted(x) == x >= poll.first

PollSafe ==
    \A n \in Names :
        /\ poll.got = SelectSeq(putNums[n], Polled)
        /\ \A i, j \in 1..Len(poll.got) : i < j => poll.got[i] < poll.got[j]

PollDone ==
    \A n \in Names :
        /\ poll.got = SelectSeq(putNums[n], Wanted)
        /\ (task[Consumer].pc = "done"
            => task[Consumer].resp.err = "" /\ task[Consumer].resp.msgs = <<>>)

(***************************************************************************)
(* C10: a consumer that starts with the cursor f and moves it past the     *)
(* last record of each non-empty reply has received, at every moment, the  *)
(* records of the log with f <= num < cursor, each once and in increasing  *)
(* num, while Archives stay below its cursor; and once Puts have stopped   *)
(* it ends up with every record of num >= f and gets empty windows from    *)
(* then on.                                                                *)
(***************************************************************************)
C10_Poll ==
    /\ []PollSafe
    /\ <>[]PollDone
    /\ []<>(task[Consumer].pc = "done")

\* the consumer has received records 1 and 2, record 1 archived meanwhile,
\* and has then got an empty window
C10_Witness ==
    \E n \in Names :
        /\ poll = [first |-> 1, from |-> 3, got |-> <<1, 2>>]
        /\ putNums[n] = <<1, 2>>
        /\ Len(content[n]) = 1
        /\ task[Consumer].pc = "done" /\ task[Consumer].resp.msgs = <<>>


(***************************************************************************)
(* The registry of actors.                                                 *)
(***************************************************************************)
\* the tasks that were given an actor by their lookup
HasLogR(c) == task[c].pc \in {"send", "await", "done"} /\ task[c].logR # 0

\* the actors the registry holds under a name
ActorsOf(n) == {i \in 1..Len(logRs) : logRs[i] = n}

\* C11: lookups of one name, also concurrent ones for a log not yet
\* there, leave at most one actor of that name in the registry and one
\* file of that name in the data directory, and every requester is given
\* that same actor.
C11_OneActor ==
    /\ \A n \in Names : Cardinality(ActorsOf(n)) <= 1
    /\ \A n \in Names : ActorsOf(n) # {} => fileExists(files, n) /\ n \in DOMAIN msglogs
    /\ \A c \in Clients : HasLogR(c) => ActorsOf(task[c].req.name) = {task[c].logR}
    /\ \A c, d \in Clients :
          HasLogR(c) /\ HasLogR(d) /\ task[c].req.name = task[d].req.name
              => task[c].logR = task[d].logR

\* both clients asked for the log before anything was put to it, and both
\* hold the one actor
C11_Witness ==
    /\ \A c \in Clients : task[c].pc = "send" /\ task[c].req.kind = "put" /\ task[c].logR = 1
    /\ nreq = 2
    /\ Len(logRs) = 1
    /\ \A n \in Names : content[n] = <<>> /\ fileExists(files, n)


\* the step in which the registry answers the lookup of task c
LookupStep(c) == task[c].pc = "lookup" /\ task'[c].pc # "lookup"

\* the first actor the registry holds under a name
FirstActor(n) == CHOOSE i \in ActorsOf(n) : \A j \in ActorsOf(n) : i <= j

\* C12: the registry only grows: no step, an Archive that succeeds or
\* fails included, removes or replaces an entry, and the lookup of a name
\* that is registered is answered with the actor already registered under
\* it and registers nothing.
C12_StableIdentity ==
    [][/\ Len(logRs') >= Len(logRs)
       /\ SubSeq(logRs', 1, Len(logRs)) = logRs
       /\ \A c \in Clients :
             LookupStep(c) /\ ActorsOf(task[c].req.name) # {}
                 => /\ task'[c].pc = "send"
                    /\ task'[c].logR = FirstActor(task[c].req.name)
                    /\ logRs' = logRs]_vars

\* an Archive has succeeded, both clients have asked for the log again
\* and hold the actor registered first
C12_Witness ==
    /\ \A c \in Clients : task[c].pc = "send" /\ task[c].logR = 1
    /\ \A n \in Names : arch[n] # NoArch /\ logRs = <<n>>
    /\ archived # <<>>


\* C13: the lookup of a Get or an Archive for a name that has no actor
\* and no file gives no actor and no error: the Get is answered with no
\* messages, the Archive is refused, and the registry, the caches, the
\* data directory and the archived files stay as they were.
C13_NoCreate ==
    [][\A c \in Clients :
          /\ LookupStep(c)
          /\ task[c].req.kind # "put"
          /\ ActorsOf(task[c].req.name) = {}
          /\ ~fileExists(files, task[c].req.name)
          => /\ task'[c].pc = "done"
             /\ task'[c].logR = 0
             /\ task[c].req.kind = "get" => task'[c].resp = NoResp
             /\ task[c].req.kind = "archive" => task'[c].resp.err = "Invalid log"
             /\ logRs' = logRs
             /\ files' = files
             /\ msglogs' = msglogs
             /\ archived' = archived]_vars

\* a Get and an Archive of a log never created have been answered, and
\* there is still no actor and no file
C13_Witness ==
    /\ \E c \in Clients :
          /\ task[c].pc = "done" /\ task[c].req.kind = "get"
          /\ task[c].logR = 0 /\ task[c].resp = NoResp
    /\ \E c \in Clients :
          /\ task[c].pc = "done" /\ task[c].req.kind = "archive"
          /\ task[c].logR = 0 /\ task[c].resp.err = "Invalid log"
    /\ logRs = <<>>
    /\ \A n \in Names : ~fileExists(files, n)


(***************************************************************************)
(* Requests of two clients with statsGo asking the actors for their stats  *)
(***************************************************************************)
StatReqs == 3

StatTaskStep(c) ==
    \/ \E n \in Names, from \in 1..MaxArg : SubmitGet(c, n, from, StatReqs)
    \/ \E n \in Names, data \in Payloads : SubmitPut(c, n, data, StatReqs)
    \/ \E n \in Names, upto \in 1..MaxArg : SubmitArchive(c, n, upto, StatReqs)
    \/ Lookup(c, "none")
    \/ Recv(c)

NextStat ==
    \/ \E c \in Clients : StatTaskStep(c)
    \/ \E n \in Names : ActorStepNow(n)
    \/ \E n \in Names : ServeStat(n)

SpecStat == Init /\ [][NextStat]_vars


\* the requests the actor of log n has taken and not yet replied to
InProgress(n) == {c \in Clients : task[c].pc = "await" /\ task[c].req.name = n}

\* the step in which the actor of log n serves a Stat
StatStep(n) ==
    /\ task' = task
    /\ actor' = actor
    /\ stat'[n] # stat[n] \/ msglogs'[n] # msglogs[n]

\* C14: the actor of a log has at most one request in progress: while a
\* Get, Put or Archive it has taken is not replied to, it is the only one
\* in progress, and the actor takes the next request, a Stat included,
\* only when none is in progress.
C14_OneAtATime ==
    /\ [](\A n \in Names :
             /\ Cardinality(InProgress(n)) <= 1
             /\ actor[n].pc = "ready" <=> InProgress(n) = {}
             /\ actor[n].pc # "ready" => InProgress(n) = {actor[n].cur})
    /\ [][\A n \in Names :
             /\ InProgress(n) # InProgress(n)' /\ InProgress(n)' # {}
                   => InProgress(n) = {}
             /\ n \in DOMAIN msglogs /\ n \in DOMAIN msglogs' /\ StatStep(n)
                   => InProgress(n) = {}]_vars

\* one Put is in progress, the other client's request waits to be taken,
\* and a Stat has been served before
C14_Witness ==
    \E n \in Names, c, d \in Clients :
        /\ InProgress(n) = {c}
        /\ task[c].req.kind = "put"
        /\ task[d].pc = "send" /\ task[d].req.name = n
        /\ stat[n].putCount = 1


\* C15: the reply to a Stat carries the log's name, its lastmsg and its
\* four counters as they are when the actor serves the request, and the
\* same step sets the four counters to zero and changes nothing else of
\* the cache.
C15_StatSnapshot ==
    [][\A n \in Names :
          n \in DOMAIN msglogs /\ n \in DOMAIN msglogs' /\ StatStep(n)
          => /\ stat'[n] = [name |-> n,
                            lastmsg |-> msglogs[n].lastmsg,
                            getCount |-> msglogs[n].getCount,
                            putCount |-> msglogs[n].putCount,
                            achCount |-> msglogs[n].achCount,
                            errCount |-> msglogs[n].errCount]
             /\ msglogs'[n] = [msglogs[n] EXCEPT !.getCount = 0, !.putCount = 0,
                                                 !.achCount = 0, !.errCount = 0]]_vars

\* a Stat served after a Put, an Archive and a Get has reported one of
\* each, and the counters are zero
C15_Witness ==
    \E n \in Names :
        /\ n \in DOMAIN msglogs
        /\ stat[n].name = n /\ stat[n].lastmsg = msglogs[n].lastmsg
        /\ stat[n].getCount = 1 /\ stat[n].putCount = 1 /\ stat[n].achCount = 1
        /\ msglogs[n].getCount = 0 /\ msglogs[n].putCount = 0
        /\ msglogs[n].achCount = 0 /\ msglogs[n].errCount = 0
        /\ msglogs[n].lastmsg = 1


(***************************************************************************)
(* The cache and the file.                                                 *)
(***************************************************************************)
\* the log has an actor, and the actor is between two requests
Ready(n) == ActorsOf(n) # {} /\ actor[n].pc = "ready"

\* a scan of the file as loadLogFile does it gives the descriptors, the
\* lastmsg and the size that the cache m holds
ScanGives(file, m) ==
    LET sc == ScanOf(file)
    IN /\ sc.err = ""
       /\ sc.m.msgOs = m.msgOs
       /\ sc.m.lastmsg = m.lastmsg
       /\ sc.m.size = m.size

\* C16: between two requests, after any Puts and Archives served, a scan
\* of the log file from its start gives the same descriptors (nums, order
\* and offsets), the same lastmsg and the same size as the actor's cache.
C16_ScanIsCache ==
    \A n \in Names : Ready(n) => msglogs[n].f # "nil" /\ ScanGives(files[n], msglogs[n])

\* two Puts, an Archive that kept the second, and a third Put have been
\* served
C16_Witness ==
    \E n \in Names :
        /\ Ready(n)
        /\ arch[n] # NoArch
        /\ Len(msglogs[n].msgOs) = 2
        /\ msglogs[n].msgOs[1].num = 2 /\ msglogs[n].msgOs[2].num = 3
        /\ Len(putNums[n]) = 3


\* the nums of a descriptor list, in order
NumsOf(msgOs) == [i \in 1..Len(msgOs) |-> msgOs[i].num]

StrictlyIncreasing(nums) == \A i \in 1..(Len(nums) - 1) : nums[i] < nums[i + 1]

\* the starting number in the DB header of a file
HeaderNum(file) == loadDBHeader([NewMsgLog EXCEPT !.f = "open", !.size = Len(file)], file).m.lastmsg

\* the file holds at offset off the start of a record header with number num
HeaderAt(file, off, num) ==
    LET h == RecHeaderPfx \o FormatUint(num) \o <<BAR>>
    IN Len(file) >= off + Len(h) /\ SubSeq(file, off + 1, off + Len(h)) = h

\* C17: in every state in which the cache of a log is open, whatever Puts,
\* Gets, Archives and Stats were served, the nums of the cached descriptors
\* are strictly increasing and each is greater than the starting number in
\* the DB header of the file, and each descriptor's record on disk carries
\* the descriptor's num.
C17_NumsIncrease ==
    \A n \in Names :
        ActorsOf(n) # {} /\ msglogs[n].f # "nil"
        => LET nums == NumsOf(msglogs[n].msgOs)
           IN /\ StrictlyIncreasing(nums)
              /\ nums # <<>> => nums[1] > HeaderNum(files[n])
              /\ \A i \in 1..Len(nums) :
                    HeaderAt(files[n], msglogs[n].msgOs[i].offset, nums[i])

\* two Puts, an Archive that kept the second and a Stat have been served
C17_Witness ==
    \E n \in Names :
        /\ Ready(n)
        /\ stat[n].achCount = 1
        /\ arch[n] # NoArch
        /\ HeaderNum(files[n]) = 1
        /\ NumsOf(msglogs[n].msgOs) = <<2>>


HeaderLen(file) == Len(DBHeader \o FormatUint(HeaderNum(file)))

\* the offset just past the payload of the i-th record of log n
RecEnd(n, i) ==
    msglogs[n].msgOs[i].offset
        + Len(RecHeader(content[n][i].num, Len(content[n][i].data)))
        + Len(content[n][i].data)

Rotated(n) == actor[n].pc = "busy" /\ actor'[n].pc = "rotating"

\* C20 as stated: an Archive that gets as far as the rename leaves the
\* whole log file as it was under the archive name made of the log's name
\* and the time, and no later step, a further Archive of the same log at
\* whatever time included, changes or removes an archived file.
C20_Stated ==
    [][/\ \A n \in Names :
             Rotated(n) => /\ <<n, now'>> \in DOMAIN archived'
                           /\ archived'[<<n, now'>>] = files[n]
       /\ \A a \in DOMAIN archived :
             a \in DOMAIN archived' /\ archived'[a] = archived[a]]_vars


(***************************************************************************)
(* A server started on a log file that was cut while the server was        *)
(* stopped: the file held records h+1 .. h+n after a DB header with number *)
(* h, and was truncated to the end of record h+k.  loadAllLogs registers   *)
(* the log; one client then gets and puts.                                 *)
(***************************************************************************)
BootRecs == 3

BootHdr == 1

BootReqs == 2

\* the payloads of n records
RECURSIVE PayloadSeqs(_)
PayloadSeqs(n) ==
    IF n = 0 THEN {<<>>}
    ELSE {Append(t, d) : t \in PayloadSeqs(n - 1), d \in Payloads}

\* the file a server leaves that was given Puts of these payloads after the
\* DB header with number h
RECURSIVE BootFile(_, _, _)
BootFile(h, datas, n) ==
    IF n = 0 THEN DBHeader \o FormatUint(h)
    ELSE BootFile(h, datas, n - 1) \o RecHeader(h + n, Len(datas[n])) \o datas[n]

\* truncate(1): the first size bytes of the file
Truncate(file, size) == SubSeq(file, 1, Min(size, Len(file)))

\* the offset at which the i-th record of the file ends
EndOfRec(file, i) ==
    LET os == ScanOf(file).m.msgOs
    IN IF i < Len(os) THEN os[i + 1].offset ELSE Len(file)

InitBoot ==
    \E h \in 0..BootHdr, n \in 2..BootRecs :
        \E datas \in PayloadSeqs(n), k \in 1..(n - 1) :
            /\ files = [l \in Names |->
                           Truncate(BootFile(h, datas, n),
                                    EndOfRec(BootFile(h, datas, n), k))]
            /\ archived = <<>>
            /\ now = 0
            /\ logRs = <<"a">>
            /\ msglogs = [l \in Names |-> loadLogFile(NewMsgLog, files, l, "none").m]
            /\ actor = [l \in Names |-> ReadyActor]
            /\ task = [c \in Clients |-> IdleTask]
            /\ nreq = 0
            /\ content = [l \in Names |-> [i \in 1..k |-> Rec(h + i, datas[i])]]
            /\ putNums = [l \in Names |-> <<>>]
            /\ arch = [l \in Names |-> NoArch]
            /\ poll = NoPoll
            /\ stat = [l \in Names |-> NoStat]
            /\ sg = NoStatsGo
            /\ fnd = NoFind

NextBoot ==
    \/ \E c \in EditClients, n \in Names, from \in 1..MaxArg : SubmitGet(c, n, from, BootReqs)
    \/ \E c \in EditClients, n \in Names, data \in Payloads : SubmitPut(c, n, data, BootReqs)
    \/ \E c \in EditClients : Lookup(c, "none")
    \/ \E c \in EditClients : Recv(c)
    \/ \E n \in Names : ServeGet(n, "none")
    \/ \E n \in Names : ServePut(n, "none")

SpecBoot == InitBoot /\ [][NextBoot]_vars

\* the nums of a list of records, in order
RecNums(recs) == [i \in 1..Len(recs) |-> recs[i].num]

\* C21: a server started on a log file that was truncated to the end of
\* record k holds, until the first Put, lastmsg = k and the descriptors of
\* the records up to k; the first Put served returns k + 1 and writes its
\* record directly after record k, leaving the bytes before it as they were.
C21_Truncated ==
    /\ [](\A n \in Names :
             putNums[n] = <<>>
             => /\ msglogs[n].lastmsg = LastNum(content[n])
                /\ NumsOf(msglogs[n].msgOs) = RecNums(content[n])
                /\ msglogs[n].size = Len(files[n]))
    /\ [][\A n \in Names :
             Served(n, "put") /\ putNums[n] = <<>>
             => LET c == actor[n].cur
                    data == task[c].req.data
                    k == LastNum(content[n])
                IN /\ task'[c].resp.err = ""
                   /\ task'[c].resp.num = k + 1
                   /\ files'[n] = files[n] \o RecHeader(k + 1, Len(data)) \o data
                   /\ msglogs'[n].msgOs =
                          Append(msglogs[n].msgOs, MsgOff(k + 1, Len(files[n])))]_vars

\* the file held records 2, 3 and 4 and was cut after record 3; the first
\* Put has returned 4
C21_Witness ==
    \E n \in Names, c \in Clients :
        /\ HeaderNum(files[n]) = 1
        /\ putNums[n] = <<4>>
        /\ RecNums(content[n]) = <<2, 3, 4>>
        /\ task[c].pc = "done" /\ task[c].req.kind = "put" /\ task[c].resp.num = 4


(***************************************************************************)
(* The stats loop (statsGo, lines 301-349).  On every tick it counts the   *)
(* tick, asks the registry for its actors and each actor for its stats,    *)
(* keeps the replies of the logs other than _kaf that show activity, and,  *)
(* if it kept any, puts one JSON record into the log _kaf.  One client     *)
(* gets, puts and archives meanwhile.                                      *)
(***************************************************************************)
MaxTicks == 3

KafReqs == 2

Kaf == "_kaf"

KafNames == {"a", Kaf}

KafClient == "c1"

StatsGo == "statsGo"

\* the bytes of a log's name: the logs of the model other than _kaf have
\* names of one byte
NameChars(name) == IF name = Kaf THEN <<"_", "k", "a", "f">> ELSE <<name>>

\* time.Format(time.RFC3339) of the UTC time t seconds after the epoch, for
\* t below 60
RFC3339(t) ==
    <<"1", "9", "7", "0", "-", "0", "1", "-", "0", "1", "T", "0", "0", ":", "0", "0", ":">>
        \o (IF t < 10 THEN <<"0">> ELSE <<>>) \o FormatUint(t) \o <<"Z">>

hasActivity(st) == st.getCount + st.putCount > 0 \/ st.errCount > 0

JSONName(st) ==
    <<"{", "\"", "n", "a", "m", "e", "\"", ":", "\"">> \o NameChars(st.name)
        \o <<"\"", ",", "\"", "l", "a", "s", "t", "\"", ":">> \o FormatUint(st.lastmsg)

JSONGets(st) ==
    <<",", "\"", "g", "e", "t", "s", "\"", ":">> \o FormatUint(st.getCount)
        \o <<",", "\"", "p", "u", "t", "s", "\"", ":">> \o FormatUint(st.putCount)

\* mutant: the errs field is written whatever its value
JSONLogErrs(st) ==
    JSONName(st) \o JSONGets(st)
        \o <<",", "\"", "e", "r", "r", "s", "\"", ":">> \o FormatUint(st.errCount) \o <<"}">>

\* the entry of one log in the report
JSONLog(st) ==
    IF st.errCount > 0
    THEN JSONName(st) \o JSONGets(st)
             \o <<",", "\"", "e", "r", "r", "s", "\"", ":">> \o FormatUint(st.errCount) \o <<"}">>
    ELSE IF hasActivity(st) THEN JSONName(st) \o JSONGets(st) \o <<"}">>
    ELSE JSONName(st) \o <<"}">>

RECURSIVE JSONLogs(_, _)
JSONLogs(allstats, i) ==
    IF i > Len(allstats) THEN <<>>
    ELSE JSONLog(allstats[i]) \o (IF i # Len(allstats) THEN <<",">> ELSE <<>>)
             \o JSONLogs(allstats, i + 1)

StatnoKey == <<"\"", "s", "t", "a", "t", "n", "o", "\"", ":">>

statsJSON(allstats, statCount, start, end) ==
    <<"{", "\"", "s", "t", "a", "r", "t", "\"", ":", "\"">> \o RFC3339(start)
        \o <<"\"", ",", "\"", "e", "n", "d", "\"", ":", "\"">> \o RFC3339(end)
        \o <<"\"", ",">> \o StatnoKey \o FormatUint(statCount)
        \o <<",", "\"", "l", "o", "g", "s", "\"", ":", "[">> \o JSONLogs(allstats, 1) \o <<"]", "}">>

\* mutant: the tick is not counted
CountTickNot(g) == g.statCount

\* statCount++ (a uint32; the model stops the ticker long before it wraps)
CountTick(g) == g.statCount + 1

\* <-ticker.C and statCount++
StatsTick ==
    /\ sg.pc = "tick"
    /\ sg.ticks < MaxTicks
    /\ sg' = [sg EXCEPT !.pc = "all", !.statCount = CountTick(sg), !.ticks = @ + 1,
                        !.allstats = <<>>, !.replies = <<>>]
    /\ UNCHANGED <<files, archived, now, logRs, msglogs, actor, task, nreq, content, putNums,
                   arch, poll, stat, fnd>>

\* the registry answers the allLogsReq with its list of actors (lines 270-271)
StatsAll ==
    /\ sg.pc = "all"
    /\ sg' = [sg EXCEPT !.pc = "stat", !.rest = logRs]
    /\ UNCHANGED <<files, archived, now, logRs, msglogs, actor, task, nreq, content, putNums,
                   arch, poll, stat, fnd>>

\* mutant: the reply of _kaf is kept as well
StatsKeepKaf(g, st) ==
    [g EXCEPT !.rest = Tail(@), !.replies = Append(@, st),
              !.allstats = IF hasActivity(st) THEN Append(@, st) ELSE @]

\* the reply of one actor, kept if the log is not _kaf and shows activity
StatsKeep(g, st) ==
    [g EXCEPT !.rest = Tail(@), !.replies = Append(@, st),
              !.allstats = IF st.name # Kaf /\ hasActivity(st) THEN Append(@, st) ELSE @]

\* the next actor of the list serves the Stat (lines 317-322)
StatsAsk ==
    /\ sg.pc = "stat"
    /\ sg.rest # <<>>
    /\ StatCase(Head(sg.rest))
    /\ sg' = StatsKeep(sg, StatReply(Head(sg.rest), msglogs[Head(sg.rest)]))

\* the request statsGo makes of the log _kaf
StatsPut(g, end) ==
    [IdleTask EXCEPT !.pc = "lookup",
                     !.req = [NoReq EXCEPT !.kind = "put", !.name = Kaf,
                                           !.data = statsJSON(g.allstats, g.statCount,
                                                              g.start, end)]]

\* all actors were asked: nothing to report and back to the ticker, or
\* getLog("_kaf", create) and the Put of the report (lines 325-342)
StatsEnd ==
    /\ sg.pc = "stat"
    /\ sg.rest = <<>>
    /\ IF sg.allstats = <<>>
       THEN /\ sg' = [sg EXCEPT !.pc = "tick", !.start = now, !.end = now]
            /\ task' = task
       ELSE /\ sg' = [sg EXCEPT !.pc = "report", !.end = now]
            /\ task' = [task EXCEPT ![StatsGo] = StatsPut(sg, now)]
    /\ UNCHANGED <<files, archived, now, logRs, msglogs, actor, nreq, content, putNums,
                   arch, poll, stat, fnd>>

\* getLog or the Put has answered, with an error or not: back to the ticker
StatsDone ==
    /\ sg.pc = "report"
    /\ task[StatsGo].pc = "done"
    /\ sg' = [sg EXCEPT !.pc = "tick", !.start = now]
    /\ task' = [task EXCEPT ![StatsGo] = IdleTask]
    /\ UNCHANGED <<files, archived, now, logRs, msglogs, actor, nreq, content, putNums,
                   arch, poll, stat, fnd>>

StatsStep ==
    \/ StatsTick
    \/ StatsAll
    \/ StatsAsk
    \/ StatsEnd
    \/ StatsDone
    \/ Lookup(StatsGo, "none")
    \/ Recv(StatsGo)

KafTaskStep(c) ==
    \/ \E n \in KafNames, from \in 1..MaxArg : SubmitGet(c, n, from, KafReqs)
    \/ \E n \in KafNames \ {Kaf}, data \in PollPayloads : SubmitPut(c, n, data, KafReqs)
    \/ \E n \in KafNames \ {Kaf}, upto \in 1..MaxArg : SubmitArchive(c, n, upto, KafReqs)
    \/ Lookup(c, "none")
    \/ Recv(c)

InitKaf ==
    /\ files = <<>>
    /\ archived = <<>>
    /\ now = 0
    /\ logRs = <<>>
    /\ msglogs = <<>>
    /\ actor = [n \in KafNames |-> ReadyActor]
    /\ task = [c \in {KafClient, StatsGo} |-> IdleTask]
    /\ nreq = 0
    /\ content = [n \in KafNames |-> <<>>]
    /\ putNums = [n \in KafNames |-> <<>>]
    /\ arch = [n \in KafNames |-> NoArch]
    /\ poll = NoPoll
    /\ stat = [n \in KafNames |-> NoStat]
    /\ sg = NoStatsGo
    /\ fnd = NoFind

NextKaf ==
    \/ KafTaskStep(KafClient)
    \/ \E n \in KafNames : ActorStepNow(n)
    \/ StatsStep

SpecKaf == InitKaf /\ [][NextKaf]_vars


\* the first position of the record at which key starts
KeyAt(data, key) ==
    CHOOSE i \in 1..(Len(data) - Len(key) + 1) :
        /\ SubSeq(data, i, i + Len(key) - 1) = key
        /\ \A j \in 1..(i - 1) : SubSeq(data, j, j + Len(key) - 1) # key

RECURSIVE DigitsFrom(_, _)
DigitsFrom(data, i) ==
    IF i <= Len(data) /\ DigitVal(data[i]) >= 0
    THEN <<data[i]>> \o DigitsFrom(data, i + 1)
    ELSE <<>>

\* the statno a reader finds in a record of _kaf
StatnoOf(data) == ParseUint(DigitsFrom(data, KeyAt(data, StatnoKey) + Len(StatnoKey)))

\* the statnos of the records of _kaf, in order
Statnos == [i \in 1..Len(content[Kaf]) |-> StatnoOf(content[Kaf][i].data)]

\* C22: statCount is the number of ticks the stats loop has taken: it is 0
\* before the first tick and every tick adds exactly 1 to it, whether the
\* round writes a record or not; the records of _kaf carry strictly
\* increasing statnos, and each carries the number of ticks taken when it
\* is written.
C22_Statno ==
    /\ [](sg.statCount = sg.ticks /\ StrictlyIncreasing(Statnos))
    /\ [][/\ sg'.ticks # sg.ticks
             => sg'.ticks = sg.ticks + 1 /\ sg'.statCount = sg.statCount + 1
          /\ Served(Kaf, "put")
             => /\ content'[Kaf] # content[Kaf]
                /\ StatnoOf(content'[Kaf][Len(content'[Kaf])].data) = sg.ticks]_vars

\* the first and the third tick have each written a record, the second has
\* written none
C22_Witness ==
    /\ sg.ticks = 3
    /\ Len(content[Kaf]) = 2
    /\ Statnos = <<1, 3>>


\* a reply of the round comes from a log other than _kaf that has served a
\* Get or a Put or counted an error since its last Stat
ActiveRound ==
    \E i \in 1..Len(sg.replies) :
        /\ sg.replies[i].name # Kaf
        /\ \/ sg.replies[i].getCount + sg.replies[i].putCount > 0
           \/ sg.replies[i].errCount > 0

\* C23: the stats loop asks for the log _kaf, which creates it, and puts a
\* record into it only in a round in which a log other than _kaf has
\* replied with gets + puts > 0 or errs > 0; in any other round the file
\* of _kaf is neither created nor changed, whatever the counters of _kaf
\* itself say.
C23_NoActivity ==
    /\ [](task[StatsGo].pc # "idle" => ActiveRound)
    /\ [][\/ fileExists(files, Kaf) # fileExists(files', Kaf)
          \/ fileExists(files, Kaf) /\ files'[Kaf] # files[Kaf]
          => task[StatsGo].pc # "idle" /\ ActiveRound]_vars

\* the second round has ended without a report: only _kaf had replied with
\* activity, the Put of the first report and a client's Get
C23_Witness ==
    /\ sg.pc = "tick" /\ sg.ticks = 2
    /\ Len(content[Kaf]) = 1
    /\ Len(sg.replies) = 2
    /\ ~ActiveRound
    /\ \E i \in 1..2 :
          /\ sg.replies[i].name = Kaf
          /\ sg.replies[i].putCount = 1 /\ sg.replies[i].getCount = 1


(***************************************************************************)
(* Two logs, a and b, found empty in the data directory and registered at  *)
(* the start; two clients get, put and archive on both.                    *)
(***************************************************************************)
TwoReqs == 3

TwoNames == {"a", "b"}

TwoFiles == createLogFile(createLogFile(<<>>, "a", 0), "b", 0)

InitTwo ==
    /\ files = TwoFiles
    /\ archived = <<>>
    /\ now = 0
    /\ logRs = <<"a", "b">>
    /\ msglogs = [n \in TwoNames |-> loadLogFile(NewMsgLog, files, n, "none").m]
    /\ actor = [n \in TwoNames |-> ReadyActor]
    /\ task = [c \in Clients |-> IdleTask]
    /\ nreq = 0
    /\ content = [n \in TwoNames |-> <<>>]
    /\ putNums = [n \in TwoNames |-> <<>>]
    /\ arch = [n \in TwoNames |-> NoArch]
    /\ poll = NoPoll
    /\ stat = [n \in TwoNames |-> NoStat]
    /\ sg = NoStatsGo
    /\ fnd = NoFind

TwoTaskStep(c) ==
    \/ \E n \in TwoNames, from \in 1..MaxArg : SubmitGet(c, n, from, TwoReqs)
    \/ \E n \in TwoNames, data \in PollPayloads : SubmitPut(c, n, data, TwoReqs)
    \/ \E n \in TwoNames, upto \in 1..MaxArg : SubmitArchive(c, n, upto, TwoReqs)
    \/ Lookup(c, "none")
    \/ Recv(c)

NextTwo ==
    \/ \E c \in Clients : TwoTaskStep(c)
    \/ \E n \in TwoNames : ActorStepNow(n)

SpecTwo == InitTwo /\ [][NextTwo]_vars

\* log n as the server holds it: file, cache and the actor's position
LogState(n) == <<files[n], msglogs[n], actor[n]>>

\* C24: a Put for a registered log whose actor is ready is taken whatever
\* the actors of the other logs are doing, and the step that serves a Put
\* on one log leaves the file, the descriptor list, lastmsg, the size, the
\* counters and the actor of every other log as they were.
C24_Independent ==
    /\ [](\A c \in Clients :
             /\ task[c].pc = "send"
             /\ task[c].req.kind = "put"
             /\ actor[task[c].req.name].pc = "ready"
             => ENABLED Recv(c))
    /\ [][\A n \in TwoNames :
             Served(n, "put") => \A m \in TwoNames \ {n} : LogState(m)' = LogState(m)]_vars

\* the actor of a is serving a request, and meanwhile a Put on b was
\* taken, served and answered
C24_Witness ==
    /\ actor["a"].pc = "busy" /\ actor["a"].cur = "c1"
    /\ nreq = 2
    /\ task["c2"].pc = "done" /\ task["c2"].req.kind = "put" /\ task["c2"].req.name = "b"
    /\ task["c2"].resp.num = 1
    /\ content["a"] = <<>> /\ msglogs["a"].getCount = 0


(***************************************************************************)
(* The server with a failing file system: each step of the actor meets one  *)
(* of the failures the operation can meet, or none                          *)
(***************************************************************************)
FaultReqs == 4

GetFaults == {"none", "read", "read2"}

PutFaults == {"none", "stat", "open", "writehdr", "writedata"}

RotateFaults == {"none", "rename"}

FinishFaults == {"none", "opensrc", "opendst", "copy", "open"}

FaultTaskStep(c, lim) ==
    \/ \E from \in 1..MaxArg : SubmitGet(c, "a", from, lim)
    \/ \E data \in PollPayloads : SubmitPut(c, "a", data, lim)
    \/ \E upto \in 1..MaxArg : SubmitArchive(c, "a", upto, lim)
    \/ Lookup(c, "none")
    \/ Recv(c)

FaultActorStep(n) ==
    \/ \E flt \in GetFaults : ServeGet(n, flt)
    \/ \E flt \in PutFaults : ServePut(n, flt)
    \/ \E flt \in RotateFaults : ArchiveRotate(n, now, flt)
    \/ \E flt \in FinishFaults : ArchiveFinish(n, flt)

NextFault ==
    \/ \E c \in EditClients : FaultTaskStep(c, FaultReqs)
    \/ \E n \in Names : FaultActorStep(n)

SpecFault == Init /\ [][NextFault]_vars

\* the message log a Put works on once it has compared sizes: the cached one,
\* or the one loaded again when the file's size is not the cached size
PutStart(n) ==
    IF msglogs[n].size # Len(files[n])
    THEN loadLogFile(msglogs[n], files, n, "none").m
    ELSE msglogs[n]

WriteFailed(n) ==
    /\ Served(n, "put")
    /\ task'[actor[n].cur].resp.err = "write"

\* C25: when the write of the record's header or of its payload fails during
\* a Put, the Put returns an error and no sequence number, errs goes up by
\* one, and the descriptor list, lastmsg and the cached size are what they
\* were just before the write was attempted
C25_WriteFails ==
    [][\A n \in Names : WriteFailed(n) =>
          /\ task'[actor[n].cur].resp.num = 0
          /\ msglogs'[n].errCount = msglogs[n].errCount + 1
          /\ msglogs'[n].msgOs = PutStart(n).msgOs
          /\ msglogs'[n].lastmsg = PutStart(n).lastmsg
          /\ msglogs'[n].size = PutStart(n).size]_vars

C25_Witness ==
    /\ task[KafClient].pc = "done"
    /\ task[KafClient].req.kind = "put"
    /\ task[KafClient].resp.err = "write"
    /\ msglogs # <<>>
    /\ Len(msglogs["a"].msgOs) = 1
    /\ msglogs["a"].errCount = 1
    /\ Len(files["a"]) > msglogs["a"].size


(***************************************************************************)
(* The failing file system, and a log file whose last record is given       *)
(* another number behind the server's back                                  *)
(***************************************************************************)
ReadReqs == 4

Last(s) == s[Len(s)]

EditRenumberAt(name, o, sz) ==
    /\ files' = [files EXCEPT ![name] = WriteAtExt(@, RecHeader(o.num + 1, sz), o.offset)]
    /\ content' = [content EXCEPT ![name] =
                      IF @ # <<>> /\ Last(@).num = o.num
                      THEN [@ EXCEPT ![Len(@)].num = o.num + 1] ELSE @]

EditRenumberLast(name, sc) ==
    /\ sc.err = ""
    /\ sc.m.msgOs # <<>>
    /\ EditRenumberAt(name, Last(sc.m.msgOs),
                      readRecInfo(Last(sc.m.msgOs).offset, files[name]).sz)

EditRenumber(name) ==
    /\ fileExists(files, name)
    /\ actor[name].pc = "ready"
    /\ nreq < ReadReqs
    /\ EditRenumberLast(name, ScanOf(files[name]))
    /\ nreq' = nreq + 1
    /\ UNCHANGED <<archived, now, logRs, msglogs, actor, task, putNums, arch, poll, stat, sg, fnd>>

NextRead ==
    \/ \E c \in EditClients : FaultTaskStep(c, ReadReqs)
    \/ \E n \in Names : FaultActorStep(n)
    \/ \E n \in Names : EditRenumber(n)

SpecRead == Init /\ [][NextRead]_vars

\* the indexes (from 1) in the descriptor list of the records of the window
\* of the Get the actor of log n is serving
WindowOf(n) ==
    LET ndx == findMsgNdx(msglogs[n].msgOs, task[actor[n].cur].req.num)
    IN (ndx + 1)..Min(ndx + MaxCount, Len(msglogs[n].msgOs))

\* the file of log n holds no record header with the cached number at the
\* offset of descriptor i
WrongOnDisk(n, i) ==
    ~HeaderAt(files[n], msglogs[n].msgOs[i].offset, msglogs[n].msgOs[i].num)

\* the read of a record of the window fails during the Get served in this step
ReadFails(n) ==
    \/ ServeGet(n, "read") /\ WindowOf(n) # {}
    \/ ServeGet(n, "read2") /\ Cardinality(WindowOf(n)) >= 2

GetFailed(n) == Served(n, "get") /\ task'[actor[n].cur].resp.err # ""

\* C26: a Get during which the read of a record of its window fails, or which
\* finds at the offset of a descriptor of the window a header whose number is
\* not the cached one, returns an error; and a Get that returns an error
\* returns no record at all, and errs goes up by one
C26_GetFails ==
    [][\A n \in Names :
          /\ (ReadFails(n) \/ (Served(n, "get") /\ \E i \in WindowOf(n) : WrongOnDisk(n, i)))
                => GetFailed(n)
          /\ GetFailed(n) =>
                /\ task'[actor[n].cur].resp.msgs = <<>>
                /\ msglogs'[n].errCount = msglogs[n].errCount + 1]_vars

\* a Get of two records has failed on the second one, renumbered on disk
C26_Witness ==
    /\ task[KafClient].pc = "done"
    /\ task[KafClient].req.kind = "get"
    /\ task[KafClient].req.num = 1
    /\ task[KafClient].resp.err = "message number on disk incorrect"
    /\ task[KafClient].resp.msgs = <<>>
    /\ msglogs # <<>>
    /\ Len(msglogs["a"].msgOs) = 2
    /\ HeaderAt(files["a"], msglogs["a"].msgOs[1].offset, 1)
    /\ HeaderAt(files["a"], msglogs["a"].msgOs[2].offset, 3)
    /\ msglogs["a"].errCount = 1


(***************************************************************************)
(* archive_ called with every upto, 0 included: the archive handler turns   *)
(* away an upto below 1 (line 1217), the actor's archive_ does not rely on it *)
(***************************************************************************)
ArchReqs == 4

ArchTaskStep(c) ==
    \/ \E from \in 1..MaxArg : SubmitGet(c, "a", from, ArchReqs)
    \/ \E data \in PollPayloads : SubmitPut(c, "a", data, ArchReqs)
    \/ \E upto \in 0..MaxArg : SubmitArchive(c, "a", upto, ArchReqs)
    \/ Lookup(c, "none")
    \/ Recv(c)

NextArch ==
    \/ \E c \in EditClients : ArchTaskStep(c)
    \/ \E n \in Names : ActorStepNow(n)

SpecArch == Init /\ [][NextArch]_vars

\* the actor of log n takes up the Archive it has received
ArchiveStarts(n) ==
    /\ actor[n].pc = "busy"
    /\ task[actor[n].cur].req.kind = "archive"
    /\ actor'[n] # actor[n]

\* C27: an Archive on a log whose descriptor list is empty, or with upto = 0,
\* returns an error, leaves the file, the handle, the descriptor list, lastmsg
\* and the size as they were and creates no archived file; of the counters
\* only archives goes up, by one
C27_NothingToArchive ==
    [][\A n \in Names :
          (ArchiveStarts(n)
           /\ (msglogs[n].msgOs = <<>> \/ task[actor[n].cur].req.num = 0)) =>
             /\ actor'[n].pc = "ready"
             /\ task'[actor[n].cur].pc = "done"
             /\ task'[actor[n].cur].resp.err # ""
             /\ files' = files
             /\ archived' = archived
             /\ msglogs'[n] = [msglogs[n] EXCEPT !.achCount = @ + 1]]_vars

\* both refusals have happened: an Archive with upto = 0 on a log that holds
\* a record, or an Archive on a log another Archive has emptied
C27_Witness ==
    /\ task[KafClient].pc = "done"
    /\ task[KafClient].req.kind = "archive"
    /\ \/ /\ task[KafClient].resp.err = "upto not given"
          /\ msglogs["a"].msgOs # <<>>
          /\ archived = <<>>
       \/ /\ task[KafClient].resp.err = "empty logfile"
          /\ msglogs["a"].f = "open"
          /\ msglogs["a"].lastmsg = 1
          /\ task[KafClient].req.num = 1
          /\ Cardinality(DOMAIN archived) = 1


\* the Archive the actor of log n is serving asks for more than the log holds
PastTheEnd(n) ==
    /\ content[n] # <<>>
    /\ task[actor[n].cur].req.kind = "archive"
    /\ task[actor[n].cur].req.num > LastNum(content[n])

\* C28: an Archive(upto) with upto above the num of every record of the log
\* does what Archive(lastmsg) does: it succeeds, the new file holds nothing
\* but a DB header whose starting number is the lastmsg of before, no record
\* is retained and lastmsg is what it was
C28_PastTheEnd ==
    /\ [](\A n \in Names :
             (actor[n].pc = "rotating" /\ PastTheEnd(n)) =>
                /\ files[n] = DBHeader \o FormatUint(LastNum(content[n]))
                /\ actor[n].firstMsg = MsgOff(0, 0))
    /\ [][\A n \in Names :
             /\ (ArchiveStarts(n) /\ PastTheEnd(n)) =>
                   /\ msglogs[n].lastmsg = LastNum(content[n])
                   /\ actor'[n].pc = "rotating"
                   /\ archive_Rotate(task[actor[n].cur].req.num, msglogs[n], files,
                                     archived, n, now', "none")
                        = archive_Rotate(msglogs[n].lastmsg, msglogs[n], files,
                                         archived, n, now', "none")
             /\ (Served(n, "archive") /\ actor[n].pc = "rotating" /\ PastTheEnd(n)) =>
                   /\ task'[actor[n].cur].resp.err = ""
                   /\ files'[n] = DBHeader \o FormatUint(LastNum(content[n]))
                   /\ msglogs'[n].f = "open"
                   /\ msglogs'[n].msgOs = <<>>
                   /\ msglogs'[n].lastmsg = LastNum(content[n])
                   /\ content'[n] = <<>>]_vars

\* Archive(3) has been served on a log whose records were 1 and 2
C28_Witness ==
    /\ task[KafClient].pc = "done"
    /\ task[KafClient].req.kind = "archive"
    /\ task[KafClient].req.num = 3
    /\ task[KafClient].resp.err = ""
    /\ msglogs["a"].lastmsg = 2
    /\ msglogs["a"].msgOs = <<>>
    /\ files["a"] = DBHeader \o FormatUint(2)
    /\ Cardinality(DOMAIN archived) = 1


(***************************************************************************)
(* findMsgNdx on its own, one loop iteration per step, on every strictly    *)
(* increasing list of nums up to FindMax and every number looked for        *)
(***************************************************************************)
FindMax == 5

\* the strictly increasing lists of descriptors whose nums are the set S
RECURSIVE ListOf(_, _)
ListOf(S, off) ==
    IF S = {} THEN <<>>
    ELSE LET n == CHOOSE x \in S : \A y \in S : x <= y
         IN <<MsgOff(n, off)>> \o ListOf(S \ {n}, off + 1)

FindLists == {ListOf(S, 0) : S \in SUBSET (1..FindMax)}

\* findMsgNdx entered (lines 618-622)
FindCall ==
    /\ fnd.pc = "call"
    /\ fnd' = IF Len(fnd.a) = 0 THEN [fnd EXCEPT !.pc = "done", !.res = 0]
              ELSE [fnd EXCEPT !.pc = "loop", !.s = 0, !.e = Len(fnd.a) - 1]
    /\ UNCHANGED <<files, archived, now, logRs, msglogs, actor, task, nreq, content,
                   putNums, arch, poll, stat, sg>>

\* mutant: the halving keeps s when the middle element is below num
FindBodyStuck(f, m) ==
    IF f.num <= f.a[f.s + 1].num THEN [f EXCEPT !.pc = "done", !.res = f.s]
    ELSE IF f.a[f.e + 1].num < f.num THEN [f EXCEPT !.pc = "done", !.res = Len(f.a)]
    ELSE IF m = f.s THEN [f EXCEPT !.pc = "done", !.res = f.e]
    ELSE IF f.a[m + 1].num < f.num THEN f
    ELSE [f EXCEPT !.e = m]

\* the body of the for loop (lines 624-638), m the middle index
FindBody(f, m) ==
    IF f.num <= f.a[f.s + 1].num THEN [f EXCEPT !.pc = "done", !.res = f.s]
    ELSE IF f.a[f.e + 1].num < f.num THEN [f EXCEPT !.pc = "done", !.res = Len(f.a)]
    ELSE IF m = f.s THEN [f EXCEPT !.pc = "done", !.res = f.e]
    ELSE IF f.a[m + 1].num < f.num THEN [f EXCEPT !.s = m]
    ELSE [f EXCEPT !.e = m]

\* one turn of the for loop, or the return after it (lines 623-640)
FindIter ==
    /\ fnd.pc = "loop"
    /\ fnd' = IF fnd.s <= fnd.e THEN FindBody(fnd, (fnd.s + fnd.e) \div 2)
              ELSE [fnd EXCEPT !.pc = "done", !.res = Len(fnd.a)]
    /\ UNCHANGED <<files, archived, now, logRs, msglogs, actor, task, nreq, content,
                   putNums, arch, poll, stat, sg>>

InitFind ==
    /\ files = <<>>
    /\ archived = <<>>
    /\ now = 0
    /\ logRs = <<>>
    /\ msglogs = <<>>
    /\ actor = [n \in Names |-> ReadyActor]
    /\ task = [c \in Clients |-> IdleTask]
    /\ nreq = 0
    /\ content = [n \in Names |-> <<>>]
    /\ putNums = [n \in Names |-> <<>>]
    /\ arch = [n \in Names |-> NoArch]
    /\ poll = NoPoll
    /\ stat = [n \in Names |-> NoStat]
    /\ sg = NoStatsGo
    /\ \E a \in FindLists, num \in 0..(FindMax + 1) :
          fnd = [NoFind EXCEPT !.pc = "call", !.a = a, !.num = num]

NextFind == FindCall \/ FindIter

SpecFind == InitFind /\ [][NextFind]_vars

\* the call runs on: nothing holds up the goroutine that executes findMsgNdx
FairSpecFind == SpecFind /\ WF_vars(NextFind)

\* the index (from 0) of the first element of a whose num is at least num,
\* the length of a when there is none
FirstAtLeast(a, num) ==
    Cardinality({i \in 1..Len(a) : \A j \in 1..i : a[j].num < num})

\* C29: on every list of descriptors with strictly increasing nums (gaps and
\* the lengths 0, 1 and 2 included) and every num, findMsgNdx returns the
\* index of the first element whose num is at least num: 0 when num is at most
\* the first num, the length of the list when num is above the last one, 0 on
\* the empty list; every turn of its loop brings s and e closer, and the call
\* returns
C29_FindMsgNdx ==
    /\ [](fnd.pc = "done" =>
            /\ fnd.res = FirstAtLeast(fnd.a, fnd.num)
            /\ fnd.res = findMsgNdx(fnd.a, fnd.num)
            /\ fnd.a = <<>> => fnd.res = 0
            /\ (fnd.a # <<>> /\ fnd.num <= fnd.a[1].num) => fnd.res = 0
            /\ (fnd.a # <<>> /\ fnd.num > Last(fnd.a).num) => fnd.res = Len(fnd.a))
    /\ [][(fnd.pc = "loop" /\ fnd'.pc = "loop") => fnd'.e - fnd'.s < fnd.e - fnd.s]_vars
    /\ <>(fnd.pc = "done")

\* the search has returned the index of 4 in the list 1, 2, 4, 5 on a call for 3
C29_Witness ==
    /\ fnd.pc = "done"
    /\ Len(fnd.a) = 4
    /\ fnd.a[3].num = 4
    /\ fnd.a[4].num = 5
    /\ fnd.num = 3
    /\ fnd.res = 2
    /\ fnd.s = 1


\* the errors of the file system's calls: Stat, OpenFile, ReadAt, Read, WriteAt,
\* Write and Rename
FsErrors == {"stat", "open", "read", "write", "rename", "copy"}

\* the actor of log n has answered the request it was busy with
Answered(n) == Served(n, "get") \/ Served(n, "put") \/ Served(n, "archive")

\* C30 (as stated): whenever the actor, serving a Get, a Put or an Archive, meets
\* a failure of the file system (stat, read, write, rename, open of the old or
\* of the new file, tail copy, re-scan), the operation returns that error and
\* errs goes up by exactly one
C30_Stated ==
    [][\A n \in Names :
          (Answered(n) /\ task'[actor[n].cur].resp.err \in FsErrors) =>
             msglogs'[n].errCount = msglogs[n].errCount + 1]_vars


\* the log file of n scans without error and holds the whole of each record
Intact(n) ==
    /\ fileExists(files, n)
    /\ ScanOf(files[n]).err = ""
    /\ \A i \in 1..Len(ScanOf(files[n]).m.msgOs) :
          readMsg(ScanOf(files[n]).m.msgOs[i], "open", files[n], "none").err = ""

\* the nums of the window from num on of the records a scan of file finds
FileWindow(file, num) ==
    LET sc == ScanOf(file).m.msgOs
        ndx == findMsgNdx(sc, num)
    IN NumsOf(SubSeq(sc, ndx + 1, Min(ndx + MaxCount, Len(sc))))

\* C31 (as stated): every step of an actor that answers a request leaves it
\* ready, and whatever errors earlier operations returned (a failed write or
\* re-scan in a Put, an Archive that failed at or after the rename), a Put
\* that meets no failure on an intact log file succeeds with the lastmsg
\* found in the file plus one, and a Get that meets none returns the file's
\* records
C31_Stated ==
    [][\A n \in Names :
          /\ (actor[n].pc = "rotating" /\ actor'[n] # actor[n]) => actor'[n].pc = "ready"
          /\ (ServePut(n, "none") /\ Intact(n)) =>
                /\ task'[actor[n].cur].resp.err = ""
                /\ task'[actor[n].cur].resp.num = ScanOf(files[n]).m.lastmsg + 1
          /\ (ServeGet(n, "none") /\ Intact(n)) =>
                /\ task'[actor[n].cur].resp.err = ""
                /\ NumsOf(task'[actor[n].cur].resp.msgs)
                     = FileWindow(files[n], task[actor[n].cur].req.num)]_vars


\* the actor of log n answers a Put that found the file's size different from
\* the cached one, and the Put succeeds
PutRefreshed(n) ==
    /\ Served(n, "put")
    /\ msglogs[n].f # "nil"
    /\ fileExists(files, n)
    /\ msglogs[n].size # Len(files[n])
    /\ task'[actor[n].cur].resp.err = ""

\* C32 (as stated): a Put that finds the file's size different from the cached
\* size gives its record the lastmsg of a scan of the file plus one, writes
\* it at the end of the file as it was, and leaves a cache whose size is the
\* file's size and that a scan of the file gives again
C32_Stated ==
    [][\A n \in Names : PutRefreshed(n) =>
          /\ task'[actor[n].cur].resp.num = ScanOf(files[n]).m.lastmsg + 1
          /\ files'[n] = files[n] \o RecHeader(task'[actor[n].cur].resp.num,
                                               Len(task[actor[n].cur].req.data))
                                  \o task[actor[n].cur].req.data
          /\ msglogs'[n].size = Len(files'[n])
          /\ ScanGives(files'[n], msglogs'[n])]_vars


(***************************************************************************)
(* The stats loop over two logs, a and b, loaded at boot, with a client     *)
(* whose requests may meet file-system failures                             *)
(***************************************************************************)
ReportReqs == 2

ReportNames == {"a", "b", Kaf}

InitReport ==
    /\ files = TwoFiles
    /\ archived = <<>>
    /\ now = 0
    /\ logRs = <<"a", "b">>
    /\ msglogs = [n \in TwoNames |-> loadLogFile(NewMsgLog, files, n, "none").m]
    /\ actor = [n \in ReportNames |-> ReadyActor]
    /\ task = [c \in {KafClient, StatsGo} |-> IdleTask]
    /\ nreq = 0
    /\ content = [n \in ReportNames |-> <<>>]
    /\ putNums = [n \in ReportNames |-> <<>>]
    /\ arch = [n \in ReportNames |-> NoArch]
    /\ poll = NoPoll
    /\ stat = [n \in ReportNames |-> NoStat]
    /\ sg = NoStatsGo
    /\ fnd = NoFind

ReportTaskStep(c) ==
    \/ \E n \in TwoNames : SubmitGet(c, n, 1, ReportReqs)
    \/ \E n \in TwoNames, data \in PollPayloads : SubmitPut(c, n, data, ReportReqs)
    \/ \E n \in TwoNames : SubmitArchive(c, n, 1, ReportReqs)
    \/ Lookup(c, "none")
    \/ Recv(c)

\* the requests of the client may fail at a read or at a write; the stats
\* loop's own requests to the actors are served as well
ReportActorStep(n) ==
    \/ \E flt \in {"none", "read"} : ServeGet(n, flt)
    \/ \E flt \in {"none", "writehdr"} : ServePut(n, flt)
    \/ ArchiveRotate(n, now, "none")
    \/ ArchiveFinish(n, "none")

NextReport ==
    \/ ReportTaskStep(KafClient)
    \/ \E n \in ReportNames : ReportActorStep(n)
    \/ StatsStep

SpecReport == InitReport /\ [][NextReport]_vars

NameKey == <<"{", "\"", "n", "a", "m", "e", "\"", ":", "\"">>

\* the text of data from position i up to, not including, the next byte c
UpTo(data, i, c) ==
    LET stops == {j \in i..Len(data) : data[j] = c}
    IN IF stops = {} THEN SubSeq(data, i, Len(data))
       ELSE SubSeq(data, i, (CHOOSE j \in stops : \A k \in stops : j <= k) - 1)

\* the number behind key in the entry, -1 when the entry has no such key
FieldOf(entry, key) ==
    IF \E i \in 1..(Len(entry) - Len(key) + 1) : SubSeq(entry, i, i + Len(key) - 1) = key
    THEN ParseUint(DigitsFrom(entry, KeyAt(entry, key) + Len(key)))
    ELSE -1

\* what a reader finds in one entry of the logs array
EntryOf(entry) ==
    [name |-> UpTo(entry, Len(NameKey) + 1, "\""),
     last |-> FieldOf(entry, <<"\"", "l", "a", "s", "t", "\"", ":">>),
     gets |-> FieldOf(entry, <<"\"", "g", "e", "t", "s", "\"", ":">>),
     puts |-> FieldOf(entry, <<"\"", "p", "u", "t", "s", "\"", ":">>),
     errs |-> FieldOf(entry, <<"\"", "e", "r", "r", "s", "\"", ":">>)]

\* the entries of the logs array of a record of _kaf, in order
RECURSIVE EntriesAt(_, _)
EntriesAt(data, at) ==
    IF at = {} THEN <<>>
    ELSE LET i == CHOOSE j \in at : \A k \in at : j <= k
         IN <<EntryOf(UpTo(data, i, "}"))>> \o EntriesAt(data, at \ {i})

EntriesFrom(data, from) ==
    EntriesAt(data, {i \in from..(Len(data) - Len(NameKey) + 1) :
                        SubSeq(data, i, i + Len(NameKey) - 1) = NameKey})

\* the entries the replies call for: one for each reply of a log other than
\* _kaf with gets + puts > 0 or errs > 0, errs only when above 0
RECURSIVE EntriesFor(_)
EntriesFor(replies) ==
    IF replies = <<>> THEN <<>>
    ELSE LET r == Head(replies)
         IN (IF r.name # Kaf /\ (r.getCount + r.putCount > 0 \/ r.errCount > 0)
             THEN <<[name |-> NameChars(r.name), last |-> r.lastmsg, gets |-> r.getCount,
                     puts |-> r.putCount,
                     errs |-> IF r.errCount > 0 THEN r.errCount ELSE -1]>>
             ELSE <<>>) \o EntriesFor(Tail(replies))

\* the stats loop hands over the record of this round
Reports == task[StatsGo].pc = "idle" /\ task'[StatsGo].pc = "lookup"

\* C33: each actor asked in a round replies with its log's lastmsg and the
\* counters it has counted since its previous Stat, and starts counting again
\* from 0; the logs array of the record written for the round has one entry
\* for exactly each log asked, other than _kaf, whose reply has gets + puts > 0
\* or errs > 0, with that reply's lastmsg, gets and puts, and with an errs
\* field, carrying its errs, exactly when errs > 0
C33_LogsArray ==
    [][/\ sg'.replies # sg.replies /\ sg'.replies # <<>> =>
             LET n == Head(sg.rest)
             IN /\ sg'.replies = Append(sg.replies, Last(sg'.replies))
                /\ \A i \in 1..Len(sg.replies) : sg.replies[i].name # n
                /\ Last(sg'.replies) =
                      [name |-> n, lastmsg |-> msglogs[n].lastmsg,
                       getCount |-> msglogs[n].getCount, putCount |-> msglogs[n].putCount,
                       achCount |-> msglogs[n].achCount, errCount |-> msglogs[n].errCount]
                /\ msglogs'[n].getCount = 0 /\ msglogs'[n].putCount = 0
                /\ msglogs'[n].errCount = 0
       /\ Reports =>
             EntriesFrom(task'[StatsGo].req.data, 1) = EntriesFor(sg.replies)]_vars

\* the record of a round is handed over in which a had served a Put and a Get
\* that failed, and b an Archive only
C33_Witness ==
    /\ task[StatsGo].pc = "lookup"
    /\ Len(sg.replies) = 2
    /\ sg.replies[1] = [name |-> "a", lastmsg |-> 1, getCount |-> 1, putCount |-> 1,
                        achCount |-> 0, errCount |-> 1]
    /\ sg.replies[2].achCount = 0 /\ sg.replies[2].getCount = 0
    /\ Len(EntriesFrom(task[StatsGo].req.data, 1)) = 1
    /\ EntriesFrom(task[StatsGo].req.data, 1)[1].errs = 1


(***************************************************************************)
(* Two clients, the registry, the actors of a and _kaf and the stats loop,  *)
(* all running; the creation of a log file may fail                         *)
(***************************************************************************)
LiveReqs == 2

LiveClients == {"c1", "c2"}

LiveTasks == LiveClients \cup {StatsGo}

InitLive ==
    /\ files = <<>>
    /\ archived = <<>>
    /\ now = 0
    /\ logRs = <<>>
    /\ msglogs = <<>>
    /\ actor = [n \in KafNames |-> ReadyActor]
    /\ task = [c \in LiveTasks |-> IdleTask]
    /\ nreq = 0
    /\ content = [n \in KafNames |-> <<>>]
    /\ putNums = [n \in KafNames |-> <<>>]
    /\ arch = [n \in KafNames |-> NoArch]
    /\ poll = NoPoll
    /\ stat = [n \in KafNames |-> NoStat]
    /\ sg = NoStatsGo
    /\ fnd = NoFind

LiveSubmit(c) ==
    \/ SubmitGet(c, "a", 1, LiveReqs)
    \/ SubmitPut(c, "a", X, LiveReqs)
    \/ SubmitArchive(c, "a", 1, LiveReqs)

\* the registry serves the logReq of task c
LiveLookup(c) == \E flt \in {"none", "create"} : Lookup(c, flt)

\* statsGo dereferences the nil logR: the goroutine panics and the process
\* ends
StatsPanic ==
    /\ sg.pc = "report"
    /\ task[StatsGo].pc = "panic"
    /\ sg' = [sg EXCEPT !.pc = "panic"]
    /\ UNCHANGED <<files, archived, now, logRs, msglogs, actor, task, nreq, content, putNums,
                   arch, poll, stat, fnd>>

\* the steps of the stats loop past its ticker
StatsRound == StatsAll \/ StatsEnd \/ StatsDone \/ Recv(StatsGo)

\* the process runs until a goroutine panics
Alive == sg.pc # "panic"

LiveTaskStep(c) == Alive /\ (LiveSubmit(c) \/ Recv(c))

LiveRegistryStep(c) == Alive /\ LiveLookup(c)

LiveActorStep(n) == Alive /\ ActorStepNow(n)

LiveStatsStep == Alive /\ (StatsTick \/ StatsAsk \/ StatsRound)

NextLive ==
    \/ \E c \in LiveClients : LiveTaskStep(c)
    \/ \E c \in LiveTasks : LiveRegistryStep(c)
    \/ \E n \in KafNames : LiveActorStep(n)
    \/ LiveStatsStep
    \/ StatsPanic

SpecLive == InitLive /\ [][NextLive]_vars

\* every goroutine that can take a step takes one; a goroutine waiting to
\* send on an actor's channel is served in its turn
FairSpecLive ==
    /\ SpecLive
    /\ \A c \in LiveTasks : WF_vars(LiveRegistryStep(c))
    /\ \A c \in LiveTasks : SF_vars(Alive /\ Recv(c))
    /\ \A n \in KafNames : WF_actor(Alive /\ ActorTurn(n))
    /\ SF_vars(Alive /\ StatsAsk)
    /\ WF_vars(Alive /\ (StatsAll \/ StatsEnd \/ StatsDone \/ StatsPanic))

\* a request of task c is with the registry or with an actor
Pending(c) == task[c].pc \in {"lookup", "send", "await"}

\* C34: every request submitted to the registry or to an actor is answered
\* in the end, every busy actor becomes ready again, and the stats loop ends
\* each of its rounds
C34_Stated ==
    /\ \A c \in LiveTasks : Pending(c) ~> ~Pending(c)
    /\ \A n \in KafNames : (actor[n].pc # "ready") ~> (actor[n].pc = "ready")
    /\ (sg.pc \in {"all", "stat"}) ~> (sg.pc \in {"tick", "report"})


\* as long as the process does not panic, every request is answered
LiveUnlessPanic == C34_Stated \/ <>(sg.pc = "panic")


(***************************************************************************)
(* A log file put into the data directory while the server runs: a DB       *)
(* header and records with any numbers.  The first request for the log      *)
(* makes the registry scan the file.                                        *)
(***************************************************************************)
ScanRecs == 3

ScanMax == 3

ScanReqs == 2

\* the record numbers of a file of n records
RECURSIVE NumSeqs(_)
NumSeqs(n) ==
    IF n = 0 THEN {<<>>}
    ELSE {Append(t, d) : t \in NumSeqs(n - 1), d \in 0..ScanMax}

\* the file with DB header number h and records of these numbers
RECURSIVE NumFile(_, _, _)
NumFile(h, nums, n) ==
    IF n = 0 THEN DBHeader \o FormatUint(h)
    ELSE NumFile(h, nums, n - 1) \o RecHeader(nums[n], Len(X)) \o X

InitScan ==
    \E h \in 0..1, n \in 0..ScanRecs :
        \E nums \in NumSeqs(n) :
            /\ files = [l \in Names |-> NumFile(h, nums, n)]
            /\ archived = <<>>
            /\ now = 0
            /\ logRs = <<>>
            /\ msglogs = <<>>
            /\ actor = [l \in Names |-> ReadyActor]
            /\ task = [c \in Clients |-> IdleTask]
            /\ nreq = 0
            /\ content = [l \in Names |-> [i \in 1..n |-> Rec(nums[i], X)]]
            /\ putNums = [l \in Names |-> <<>>]
            /\ arch = [l \in Names |-> NoArch]
            /\ poll = NoPoll
            /\ stat = [l \in Names |-> NoStat]
            /\ sg = NoStatsGo
            /\ fnd = NoFind

ScanTaskStep(c) ==
    \/ \E n \in Names : SubmitGet(c, n, 1, ScanReqs)
    \/ \E n \in Names : SubmitPut(c, n, X, ScanReqs)
    \/ \E n \in Names : SubmitArchive(c, n, 1, ScanReqs)
    \/ Lookup(c, "none")
    \/ Recv(c)

NextScan ==
    \/ \E c \in EditClients : ScanTaskStep(c)
    \/ \E n \in Names : ActorStepNow(n)

SpecScan == InitScan /\ [][NextScan]_vars

\* the numbers above 0 among nums, in order
RECURSIVE Positive(_)
Positive(nums) ==
    IF nums = <<>> THEN <<>>
    ELSE (IF Head(nums) > 0 THEN <<Head(nums)>> ELSE <<>>) \o Positive(Tail(nums))

\* the registry answers the logReq of task c for a log it has no actor of
Scans(c) ==
    /\ task[c].pc = "lookup"
    /\ task'[c].pc # "lookup"
    /\ ~findLogR(logRs, task[c].req.name)

\* C35: the scan accepts a file exactly if the numbers above 0 of its
\* records increase strictly from the number of the DB header on; it then
\* holds one descriptor for each of these records and none for a record of
\* number 0.  Otherwise the request is answered with an error and no actor
\* is registered for the log.
C35_Scan ==
    [][\A c \in EditClients :
          Scans(c) /\ putNums[task[c].req.name] = <<>>
          => LET n == task[c].req.name
                 nums == Positive(RecNums(content[n]))
             IN IF StrictlyIncreasing(<<HeaderNum(files[n])>> \o nums)
                THEN /\ logRs' = Append(logRs, n)
                     /\ task'[c].pc = "send"
                     /\ NumsOf(msglogs'[n].msgOs) = nums
                     /\ msglogs'[n].lastmsg = Last(<<HeaderNum(files[n])>> \o nums)
                ELSE /\ logRs' = logRs
                     /\ task'[c].pc = "done"
                     /\ task'[c].resp.err = IF task[c].req.kind = "archive"
                                             THEN "Invalid log"
                                             ELSE "message number did not increase"]_vars

\* the file holds records 2, 0 and 2 after the header number 1: the request
\* was answered with the error and there is no actor
C35_Witness ==
    \E c \in EditClients :
        /\ task[c].pc = "done"
        /\ task[c].resp.err = "message number did not increase"
        /\ logRs = <<>>
        /\ HeaderNum(files[task[c].req.name]) = 1
        /\ RecNums(content[task[c].req.name]) = <<2, 0, 2>>


(***************************************************************************)
(* Log names as the handlers receive them: the bytes of the URL path after *)
(* /put/ or /get/.  The ServeMux redirects a path that is not clean, the   *)
(* handler trims spaces and refuses hidden names, and the registry looks   *)
(* the name up and resolves it with path.Join(dbloc, name).  The data      *)
(* directory holds no directories.  In this part of the model logRs lists  *)
(* names as byte sequences, files maps paths (lists of segments below the  *)
(* data directory) to bytes, and content maps each path to the names of    *)
(* the actors that wrote the file.                                         *)
(***************************************************************************)
PathLen == 2

PathReqs == 3

PathBytes == {"a", "/", ".", " "}

RECURSIVE PathNames(_)
PathNames(n) ==
    IF n = 0 THEN {<<>>}
    ELSE PathNames(n - 1) \cup {Append(t, b) : t \in PathNames(n - 1), b \in PathBytes}

\* strings.TrimSpace
RECURSIVE TrimSpace(_)
TrimSpace(s) ==
    IF s = <<>> THEN s
    ELSE IF Head(s) = " " THEN TrimSpace(Tail(s))
    ELSE IF s[Len(s)] = " " THEN TrimSpace(SubSeq(s, 1, Len(s) - 1))
    ELSE s

\* the elements of s between its slashes
RECURSIVE Split(_, _)
Split(s, cur) ==
    IF s = <<>> THEN <<cur>>
    ELSE IF Head(s) = "/" THEN <<cur>> \o Split(Tail(s), <<>>)
    ELSE Split(Tail(s), Append(cur, Head(s)))

Dot == <<".">>

DotDot == <<".", ".">>

\* path.Clean on the elements of a path below the data directory: empty
\* elements and . go, .. takes the element before it away
RECURSIVE Clean(_, _)
Clean(segs, out) ==
    IF segs = <<>> THEN out
    ELSE IF Head(segs) = <<>> \/ Head(segs) = Dot THEN Clean(Tail(segs), out)
    ELSE IF Head(segs) = DotDot /\ out # <<>> /\ out[Len(out)] # DotDot
         THEN Clean(Tail(segs), SubSeq(out, 1, Len(out) - 1))
    ELSE Clean(Tail(segs), Append(out, Head(segs)))

\* path.Join(dbloc, name), as the list of elements below dbloc
pathJoin(name) == Clean(Split(name, <<>>), <<>>)

\* the ServeMux hands the request to the handler if its path is clean; it
\* keeps a slash at the end of the path
MuxServes(rest) ==
    LET segs == Split(rest, <<>>)
    IN \A i \in 1..Len(segs) :
          /\ segs[i] # Dot
          /\ segs[i] # DotDot
          /\ segs[i] = <<>> => i = Len(segs)

isHidden(name) ==
    \/ Len(name) = 0
    \/ name[1] = "."
    \/ (Len(name) >= 2 /\ name[1] = "-" /\ name[2] = "-")

\* os.OpenFile with O_CREATE succeeds for a file directly in the data
\* directory
CanCreate(loc) == Len(loc) = 1

\* one request of logsGo for a name (lines 243-268)
logsGoPath(name, create, lRs, mls, fls) ==
    IF findLogR(lRs, name) THEN [logRs |-> lRs, msglogs |-> mls, files |-> fls, found |-> TRUE]
    ELSE LET loc == pathJoin(name)
             made == IF create /\ ~fileExists(fls, loc) /\ CanCreate(loc)
                     THEN createLogFile(fls, loc, 0) ELSE fls
             ld == loadLogFile(NewMsgLog, made, loc, "none")
         IN IF fileExists(made, loc) /\ ld.err = ""
            THEN [logRs |-> Append(lRs, name), msglogs |-> SetFile(mls, name, ld.m),
                  files |-> made, found |-> TRUE]
            ELSE [logRs |-> lRs, msglogs |-> mls, files |-> made, found |-> FALSE]

InitPath ==
    /\ files = <<>>
    /\ archived = <<>>
    /\ now = 0
    /\ logRs = <<>>
    /\ msglogs = <<>>
    /\ actor = [n \in Names |-> ReadyActor]
    /\ task = [c \in Clients |-> IdleTask]
    /\ nreq = 0
    /\ content = <<>>
    /\ putNums = [n \in Names |-> <<>>]
    /\ arch = [n \in Names |-> NoArch]
    /\ poll = NoPoll
    /\ stat = [n \in Names |-> NoStat]
    /\ sg = NoStatsGo
    /\ fnd = NoFind

\* a get request for the path /get/<rest>
PathGet(rest) ==
    /\ nreq < PathReqs
    /\ nreq' = nreq + 1
    /\ LET name == TrimSpace(rest)
           r == logsGoPath(name, FALSE, logRs, msglogs, files)
       IN IF MuxServes(rest) /\ ~isHidden(name)
          THEN /\ logRs' = r.logRs
               /\ files' = r.files
               /\ msglogs' = IF r.found
                             THEN [r.msglogs EXCEPT ![name] =
                                     get_(1, r.msglogs[name], files[pathJoin(name)], "none").m]
                             ELSE r.msglogs
          ELSE UNCHANGED <<logRs, files, msglogs>>
    /\ UNCHANGED <<archived, now, actor, task, content, putNums, arch, poll, stat, sg, fnd>>

PathPutDone(name, loc, r, p) ==
    /\ logRs' = r.logRs
    /\ files' = p.files
    /\ msglogs' = [r.msglogs EXCEPT ![name] = p.m]
    /\ content' = IF p.resp.err = ""
                  THEN SetFile(content, loc,
                               (IF loc \in DOMAIN content THEN content[loc] ELSE <<>>)
                                   \o <<name>>)
                  ELSE content

PathPutFound(name, loc, r) ==
    IF r.found
    THEN PathPutDone(name, loc, r, put_(X, r.msglogs[name], r.files, loc, "none"))
    ELSE /\ logRs' = r.logRs
         /\ files' = r.files
         /\ msglogs' = r.msglogs
         /\ content' = content

\* a put request for the path /put/<rest> with the payload x
PathPut(rest) ==
    /\ nreq < PathReqs
    /\ nreq' = nreq + 1
    /\ IF MuxServes(rest) /\ ~isHidden(TrimSpace(rest))
       THEN PathPutFound(TrimSpace(rest), pathJoin(TrimSpace(rest)),
                         logsGoPath(TrimSpace(rest), TRUE, logRs, msglogs, files))
       ELSE UNCHANGED <<logRs, files, msglogs, content>>
    /\ UNCHANGED <<archived, now, actor, task, putNums, arch, poll, stat, sg, fnd>>

NextPath ==
    \/ \E rest \in PathNames(PathLen) : PathGet(rest)
    \/ \E rest \in PathNames(PathLen) : PathPut(rest)

SpecPath == InitPath /\ [][NextPath]_vars

\* C36: two distinct registered names resolve to distinct files, and no
\* file has been written by two actors
C36_Stated ==
    /\ \A i, j \in 1..Len(logRs) :
          i # j => pathJoin(logRs[i]) # pathJoin(logRs[j])
    /\ \A loc \in DOMAIN content :
          \A i, j \in 1..Len(content[loc]) : content[loc][i] = content[loc][j]


\* C37 where no file-system call fails: a successful Archive leaves lastmsg
\* as it was.  When the Archive of a
\* log that holds records starts, lastmsg is the num of the log's last
\* record; when it has succeeded, lastmsg is still that num, whatever upto
\* was; and the first successful Put after it returns that num plus one.
C37_LastmsgKept ==
    [][\A n \in Names :
          /\ (ArchiveStarts(n) /\ msglogs[n].msgOs # <<>>)
             => msglogs[n].lastmsg = LastNum(content[n])
          /\ (Served(n, "archive") /\ task'[actor[n].cur].resp.err = "")
             => /\ content[n] # <<>>
                /\ msglogs'[n].lastmsg = LastNum(content[n])
                /\ arch'[n].last = msglogs'[n].lastmsg
          /\ (Served(n, "put") /\ task'[actor[n].cur].resp.err = "" /\ arch[n].fresh)
             => /\ msglogs[n].lastmsg = arch[n].last
                /\ task'[actor[n].cur].resp.num = msglogs[n].lastmsg + 1]_vars

\* the log held records 1, 2 and 3; Archive(1) has succeeded and kept
\* records 2 and 3, and lastmsg is still 3
C37_Witness ==
    \E n \in Names :
        /\ arch[n] = [upto |-> 1, last |-> 3, next |-> 0, fresh |-> TRUE]
        /\ actor[n].pc = "ready"
        /\ msglogs[n].lastmsg = 3
        /\ NumsOf(msglogs[n].msgOs) = <<2, 3>>


\* what the Archive that has rotated the file of log n will load from the
\* new file once it has copied the retained records
Reloaded(fls, ached, a) ==
    ScanOf(TailCopy(fls, ached[a.aloc], a.firstMsg.offset)).m

\* C37 as stated, for any log the actor may hold: a successful Archive ends
\* with the lastmsg it started with
C37_Stated ==
    [][\A n \in Names :
          /\ (actor[n].pc = "busy" /\ actor'[n].pc = "rotating")
             => Reloaded(files'[n], archived', actor'[n]).lastmsg = msglogs[n].lastmsg
          /\ (actor[n].pc = "rotating" /\ task'[actor[n].cur].resp.err = "")
             => msglogs'[n].lastmsg = Reloaded(files[n], archived, actor[n]).lastmsg]_vars


\* the counts of gets, puts and archives of a message log or of a Stat reply
Counts(m) == <<m.getCount, m.putCount, m.achCount>>

\* the actor of log n takes the Stat of the stats loop in this step
StatTaken(n) ==
    /\ sg.pc = "stat"
    /\ sg.rest # <<>>
    /\ Head(sg.rest) = n
    /\ sg'.rest # sg.rest

\* the actor of log n leaves the archive_ it was in
ArchiveEnds(n) == actor[n].pc = "rotating" /\ actor'[n].pc = "ready"

\* the count of each kind a step adds for log n: one for the request the
\* actor processes in it, counted when archive_, get_ or put_ begins
Processed(n) ==
    <<IF Served(n, "get") THEN 1 ELSE 0,
      IF Served(n, "put") THEN 1 ELSE 0,
      IF ArchiveStarts(n) THEN 1 ELSE 0>>

Plus(a, b) == [i \in 1..3 |-> a[i] + b[i]]

\* C38: counters are conserved.  For each log the sum of what the Stat
\* replies have reported and of the current counters grows by exactly the
\* requests processed: a step in which the actor processes a Get, a Put or
\* an Archive, failed or not, adds one to that counter and nothing to the
\* others; a Stat reports exactly the current counters and leaves them at
\* zero; a new actor starts at zero; and no other step changes a counter.
C38_Conserved ==
    [][\A n \in ReportNames :
          /\ (n \in DOMAIN msglogs /\ ~StatTaken(n))
             => Counts(msglogs'[n]) = Plus(Counts(msglogs[n]), Processed(n))
          /\ StatTaken(n)
             => /\ Counts(stat'[n]) = Counts(msglogs[n])
                /\ Counts(msglogs'[n]) = <<0, 0, 0>>
                /\ Processed(n) = <<0, 0, 0>>
          /\ (n \notin DOMAIN msglogs /\ n \in DOMAIN msglogs')
             => Counts(msglogs'[n]) = <<0, 0, 0>>]_vars

\* a Stat of log a has reported one failed Put, and the actor has processed
\* an Archive since
C38_Witness ==
    /\ Counts(stat["a"]) = <<0, 1, 0>>
    /\ stat["a"].errCount = 1
    /\ "a" \in DOMAIN msglogs
    /\ Counts(msglogs["a"]) = <<0, 0, 1>>
    /\ actor["a"].pc = "ready"


\* the actor of log n changes the descriptors it holds in this step
Rescans(n) ==
    /\ n \in DOMAIN msglogs
    /\ n \in DOMAIN msglogs'
    /\ msglogs'[n].msgOs # msglogs[n].msgOs

\* C39: a Get changes nothing but counters.  It leaves the files, the
\* handle, the descriptors, lastmsg and size as they were, adds one to gets,
\* and one to errs exactly when it returns an error; the records it returns
\* are records the descriptors name.  The descriptors change only in a step
\* of a Put or of an Archive, so a record added to the file from outside is
\* not returned before one of these.
C39_GetFrame ==
    [][\A n \in Names :
          /\ Served(n, "get")
             => LET resp == task'[actor[n].cur].resp
                IN /\ files' = files
                   /\ archived' = archived
                   /\ msglogs'[n] =
                          [msglogs[n] EXCEPT
                              !.getCount = @ + 1,
                              !.errCount = @ + (IF resp.err # "" THEN 1 ELSE 0)]
                   /\ \A i \in 1..Len(resp.msgs) :
                          \E j \in 1..Len(msglogs[n].msgOs) :
                              msglogs[n].msgOs[j].num = resp.msgs[i].num
          /\ Rescans(n)
             => \/ Served(n, "put")
                \/ ArchiveStarts(n)
                \/ ArchiveEnds(n)]_vars

\* record 2 was added to the file from outside; the Get from 1 that followed
\* has returned record 1 alone
C39_Witness ==
    \E n \in Names, c \in Clients :
        /\ task[c].pc = "done" /\ task[c].req.kind = "get" /\ task[c].req.num = 1
        /\ task[c].resp.err = ""
        /\ Len(task[c].resp.msgs) = 1
        /\ NumsOf(msglogs[n].msgOs) = <<1>>
        /\ NumsOf(ScanOf(files[n]).m.msgOs) = <<1, 2>>
        /\ msglogs[n].getCount = 1


(***************************************************************************)
(* Clients whose put requests may fail the handler's validation            *)
(***************************************************************************)
ValidReqs == 3

ValidTaskStep(c) ==
    \/ \E n \in Names : SubmitGet(c, n, 1, ValidReqs)
    \/ \E n \in Names, data \in {<<>>, X} : SubmitPut(c, n, data, ValidReqs)
    \/ \E n \in Names : SubmitArchive(c, n, 1, ValidReqs)
    \/ Lookup(c, "none")
    \/ Recv(c)

NextValid ==
    \/ \E c \in Clients : ValidTaskStep(c)
    \/ \E n \in Names : ActorStepNow(n)

SpecValid == Init /\ [][NextValid]_vars

\* the put handler refuses the request of task c in this step
Refused(c) ==
    /\ task[c].pc = "lookup"
    /\ task[c].req.kind = "put"
    /\ task'[c].pc = "done"
    /\ task'[c].resp.err = "put: Empty message length"

\* C40 as stated: a put request refused for its Content-Length or its body
\* creates no log file, registers no actor and changes no counter
C40_Stated ==
    [][\A c \in Clients :
          Refused(c) => /\ files' = files
                        /\ logRs' = logRs
                        /\ msglogs' = msglogs]_vars

====
